---- MODULE Spec2Model ----
(***************************************************************************)
(* Model of file_sys_stash: the local index store (sync_edl.py             *)
(* create_local_db), the sync command (sync_edl.py and the older           *)
(* single-table script file_sys_stash_untilities.py), the EDL ingest       *)
(* command (sync_edl.py) and the integrity check / cleanup utility         *)
(* (util_back_check.py).                                                   *)
(*                                                                         *)
(* A path is a sequence of components, a component (and a file name) is a  *)
(* sequence of text tokens: "/media/./a.MP4" is                            *)
(* << <<"media">>, <<".">>, <<"a", ".MP4">> >>.  A cut-list line is the    *)
(* sequence of its comma-separated fields.                                 *)
(***************************************************************************)
EXTENDS Integers, Sequences, FiniteSets, Bags, TLC

\* ------------------------------------------------------------------ bounds
\* The AUTOINCREMENT counter of local_files is unbounded in sqlite; a sync that
\* could push it beyond the bound is not started.
MaxLocalId == 3
\* cut-list files present under the EDL root at one time
MaxEdlFiles == 2

\* ------------------------------------------------------------- sequences
Last(s) == s[Len(s)]

ButLast(s) == SubSeq(s, 1, Len(s) - 1)

SetMax(S) == IF S = {} THEN 0 ELSE CHOOSE m \in S : \A x \in S : x <= m

\* ------------------------------------------------------------ file names
\* str.lower() on the tokens the model uses
Lower(tok) ==
  CASE tok = ".MP4" -> ".mp4"
    [] tok = ".EDL" -> ".edl"
    [] OTHER -> tok

LowerName(name) == [i \in 1..Len(name) |-> Lower(name[i])]

\* str.endswith(suffix)
EndsWith(name, suffix) ==
  /\ Len(suffix) <= Len(name)
  /\ SubSeq(name, Len(name) - Len(suffix) + 1, Len(name)) = suffix

\* sync_edl.py: 'webm' is written without its dot
MEDIA_EXTENSIONS ==
  { <<".mp4">>, <<".mkv">>, <<".avi">>, <<".mov">>, <<".wmv">>, <<"webm">>,
    <<".flv">>, <<".jpg">>, <<".jpeg">>, <<".png">>, <<".gif">>, <<".bmp">>,
    <<".tiff">>, <<".mp3">>, <<".wav">>, <<".flac">>, <<".aac">> }

\* file_sys_stash_untilities.py: no webm entry at all
LEGACY_MEDIA_EXTENSIONS ==
  { <<".mp4">>, <<".mkv">>, <<".avi">>, <<".mov">>, <<".wmv">>, <<".flv">>,
    <<".jpg">>, <<".jpeg">>, <<".png">>, <<".gif">>, <<".bmp">>, <<".tiff">>,
    <<".mp3">>, <<".wav">>, <<".flac">>, <<".aac">> }

EDL_EXTENSIONS == { <<".edl">> }

\* filename.lower().endswith(tuple(extensions))
HasExtension(name, extensions) ==
  \E e \in extensions : EndsWith(LowerName(name), e)

\* ----------------------------------------------------------------- paths
RECURSIVE NormAcc(_, _)
NormAcc(p, acc) ==
  IF p = << >> THEN acc
  ELSE LET c == Head(p) IN
       IF c = << >> \/ c = <<".">> THEN NormAcc(Tail(p), acc)
       ELSE IF c = <<"..">>
            THEN NormAcc(Tail(p), IF acc = << >> THEN acc ELSE ButLast(acc))
            ELSE NormAcc(Tail(p), Append(acc, c))

\* os.path.normpath on an absolute path: empty and "." components dropped,
\* ".." resolved against its parent
normpath(p) == NormAcc(p, << >>)

\* os.path.join(dirpath, filename)
join(dirpath, filename) == Append(dirpath, filename)

IsUnder(root, p) ==
  /\ Len(p) > Len(root)
  /\ SubSeq(p, 1, Len(root)) = root

\* ------------------------------------------------- the modelled universe
FileA == <<"a", ".MP4">>
FileB == <<"b", ".", "webm">>
FileN == <<"notes", ".txt">>
FileZ == <<"z", ".mp4">>

MediaRoot == << <<"media">> >>

PathA == << <<"media">>, FileA >>
PathB == << <<"media">>, FileB >>
PathN == << <<"media">>, FileN >>
PathZ == << <<"media">>, FileZ >>

\* the media files that come and go under the media root, and a file that is
\* no media file and stays
MediaPaths == { PathA, PathB }

OtherPaths == { PathN }

\* rows of the catalog's files/folders join: (f.id, fl.path, f.basename)
CatRow(id, folder, basename) == [id |-> id, folder |-> folder, basename |-> basename]

CatalogRows ==
  { CatRow(1, << <<"media">> >>, FileA),
    CatRow(2, << <<"media">>, << >> >>, FileB),
    CatRow(3, << <<"media">>, <<".">> >>, FileA) }

\* fl.path || '/' || f.basename
FullPath(row) == Append(row.folder, row.basename)

\* the catalogs a sync may find: unreadable, or any set of the rows
Catalogs ==
  { [readable |-> FALSE, rows |-> {}] }
    \cup { [readable |-> TRUE, rows |-> S] : S \in SUBSET CatalogRows }

\* ------------------------------------------------------- cut-list fields
TextField(s) == [k |-> "text", s |-> s, p |-> << >>, w |-> 0, f |-> << >>]

PathField(p) == [k |-> "path", s |-> "", p |-> p, w |-> 0, f |-> << >>]

\* a decimal written <w> or <w>.<f>, f its fraction digits
DecField(w, f) == [k |-> "dec", s |-> "", p |-> << >>, w |-> w, f |-> f]

\* a decimal written with a minus sign: -<w> or -<w>.<f>
NegField(w, f) == [k |-> "neg", s |-> "", p |-> << >>, w |-> w, f |-> f]

HEADER == "# mpv EDL v0"

HeaderLine == << TextField(HEADER) >>

\* the header with white space at its end
PaddedHeaderLine == << TextField("# mpv EDL v0  ") >>

\* str.strip() of a line of text, on the texts of the modelled cut-lists
strip(line) == IF line = PaddedHeaderLine THEN HeaderLine ELSE line

BlankLine == << >>

EdlRoot == << <<"edl">> >>

RecLine(path, start, length) == << PathField(path), start, length >>

EdlX ==
  [ path  |-> << <<"edl">>, <<"x", ".edl">> >>,
    lines |-> << BlankLine,
                 HeaderLine,
                 RecLine(PathA, DecField(10, <<5>>), DecField(3, <<2, 5>>)),
                 << PathField(PathA), TextField("abc"), DecField(2, << >>) >>,
                 RecLine(<< <<"media">>, <<".">>, FileA >>,
                         DecField(10, <<5, 0>>), DecField(3, <<2, 5>>)),
                 << TextField("# comment") >>,
                 BlankLine,
                 RecLine(PathB, DecField(0, << >>), DecField(7, << >>)),
                 RecLine(PathZ, DecField(1, << >>), DecField(2, << >>)),
                 << PathField(PathB), NegField(1, << >>), DecField(2, << >>) >>,
                 BlankLine >> ]

\* the same base name in another directory of the EDL root
EdlSubX ==
  [ path  |-> << <<"edl">>, <<"sub">>, <<"x", ".edl">> >>,
    lines |-> << HeaderLine,
                 RecLine(PathA, DecField(10, <<5>>), DecField(3, <<2, 5>>)) >> ]

EdlY ==
  [ path  |-> << <<"edl">>, <<"y", "_chopped", "1", "-", "2", ".EDL">> >>,
    lines |-> << PaddedHeaderLine,
                 << PathField(PathA), DecField(3, << >>) >>,
                 RecLine(PathA, DecField(10, <<5>>), DecField(3, <<2, 5>>)) >> ]

EdlBadHeader ==
  [ path  |-> << <<"edl">>, <<"bad", ".edl">> >>,
    lines |-> << << TextField("# mpv EDL v1") >>,
                 RecLine(PathA, DecField(1, << >>), DecField(2, << >>)) >> ]

\* a file of white space only
EdlEmpty ==
  [ path  |-> << <<"edl">>, <<"empty", ".edl">> >>,
    lines |-> << BlankLine, BlankLine >> ]

EdlCandidates == { EdlX, EdlSubX, EdlY, EdlBadHeader, EdlEmpty }

\* a media file with a comma in its name, /media/c,d.mp4
FileC == <<"c", ",", "d", ".mp4">>

PathC == << <<"media">>, FileC >>

CommaPaths == { PathA, PathC }

CommaCatalogRows ==
  { CatRow(1, << <<"media">> >>, FileA),
    CatRow(4, << <<"media">> >>, FileC) }

\* /edl/c.edl: the lines /media/c,d.mp4,10.5,3.25 and /media/a.MP4,1,2, each
\* line as its comma-separated fields
EdlComma ==
  [ path  |-> << <<"edl">>, <<"c", ".edl">> >>,
    lines |-> << HeaderLine,
                 << PathField(<< <<"media">>, <<"c">> >>),
                    PathField(<< <<"d", ".mp4">> >>),
                    DecField(10, <<5>>), DecField(3, <<2, 5>>) >>,
                 RecLine(PathA, DecField(1, << >>), DecField(2, << >>)) >> ]

CommaRoots == { {EdlComma}, {EdlComma, EdlSubX} }

\* cut-lists of one record line, named for the style derived from the name
StyleEdl(name) ==
  [ path  |-> << <<"edl">>, name >>,
    lines |-> << HeaderLine, RecLine(PathA, DecField(1, << >>), DecField(2, << >>)) >> ]

\* x.edl, y_chopped1-2.EDL, z_chopped12-3.edl, w_chopped1-23.edl,
\* v_chopped1-2_more.edl, u_chopped1-2_chopped3-4.edl
StyleNames ==
  { <<"x", ".edl">>,
    <<"y", "_chopped", "1", "-", "2", ".EDL">>,
    <<"z", "_chopped", "1", "2", "-", "3", ".edl">>,
    <<"w", "_chopped", "1", "-", "2", "3", ".edl">>,
    <<"v", "_chopped", "1", "-", "2", "_more", ".edl">>,
    <<"u", "_chopped", "1", "-", "2", "_chopped", "3", "-", "4", ".edl">> }

StyleFiles == { StyleEdl(name) : name \in StyleNames }

StyleRoots == { {e} : e \in StyleFiles }

\* the contents an EDL root may have when an ingest starts
EdlRoots == { S \in SUBSET EdlCandidates : Cardinality(S) <= MaxEdlFiles }

\* ------------------------------------------------------ catalog reader
\* get_stash_files: None when the catalog cannot be read, else the dict
\* normalized path -> id.  The rows are fetched in id order and a later row
\* overwrites an earlier one with the same normalized path.
get_stash_files(cat) ==
  IF ~cat.readable
    THEN [ok |-> FALSE, map |-> << >>]
    ELSE [ok  |-> TRUE,
          map |-> [p \in {normpath(FullPath(r)) : r \in cat.rows} |->
                     SetMax({r.id : r \in {q \in cat.rows : normpath(FullPath(q)) = p}})]]

\* ---------------------------------------------------- filesystem scanner
\* os.walk(root) filtered by extension: the (dirpath, filename) pairs
Walk(files, root, extensions) ==
  { p \in files : IsUnder(root, p) /\ HasExtension(Last(p), extensions) }

\* get_file_count
get_file_count(files, root, extensions) == Cardinality(Walk(files, root, extensions))

\* ------------------------------------------------------ local index store
\* schema: "absent" (no database file), "legacy" (only local_files, as the
\* older script creates it) or "full" (the four tables of sync_edl.py).
\* seq holds sqlite_sequence, the AUTOINCREMENT high-water marks.
\* edl_records is a bag of rows without their record_id: no statement of the
\* programs reads that surrogate key, and two rows that differ in it alone are
\* two copies of one element.  edl_files.ingested_at is a logical time.
ZeroSeq == [local_files |-> 0, edl_files |-> 0]

EmptyDb(schema) ==
  [ schema       |-> schema,
    local_files  |-> {},
    edl_files    |-> {},
    edl_metadata |-> {},
    edl_records  |-> EmptyBag,
    seq          |-> ZeroSeq ]

AbsentDb == EmptyDb("absent")

\* mutant: the tables are dropped and created anew
create_local_db_Drops(d) == EmptyDb("full")

\* sync_edl.py create_local_db: four CREATE TABLE IF NOT EXISTS, committed
create_local_db(d) ==
  IF d.schema = "absent" THEN EmptyDb("full") ELSE [d EXCEPT !.schema = "full"]

\* file_sys_stash_untilities.py create_local_db: local_files only
legacy_create_local_db(d) ==
  IF d.schema = "absent" THEN EmptyDb("legacy") ELSE d

\* INTEGER PRIMARY KEY AUTOINCREMENT: one more than the largest id ever used
NextId(high, ids) == SetMax(ids \cup {high}) + 1

\* mutant: the ignored insert is reported as a row inserted
InsertOrIgnoreFile_CountsIgnored(d, path, stash_id) ==
  IF \E r \in d.local_files : r.file_path = path
    THEN [db |-> d, rowcount |-> 1]
    ELSE LET id == SetMax({r.local_id : r \in d.local_files} \cup {d.seq.local_files}) + 1 IN
         [db |-> [d EXCEPT !.local_files = @ \cup
                            {[local_id |-> id, file_path |-> path, stash_file_id |-> stash_id]},
                           !.seq.local_files = id],
          rowcount |-> 1]

\* mutant: an upsert, the row of the same path takes the id the catalog gives now
InsertOrIgnoreFile_Updates(d, path, stash_id) ==
  LET id == SetMax({r.local_id : r \in d.local_files} \cup {d.seq.local_files}) + 1 IN
  [db |-> [d EXCEPT !.local_files = {r \in @ : r.file_path # path} \cup
                     {[local_id |-> IF \E r \in d.local_files : r.file_path = path
                                      THEN (CHOOSE r \in d.local_files : r.file_path = path).local_id
                                      ELSE id,
                       file_path |-> path, stash_file_id |-> stash_id]},
                    !.seq.local_files = SetMax({@, id})],
   rowcount |-> IF \E r \in d.local_files : r.file_path = path THEN 0 ELSE 1]

\* mutant: INSERT OR REPLACE, the row of the same path is deleted and a row
\* with a new local_id is written
InsertOrIgnoreFile_Replaces(d, path, stash_id) ==
  LET id == SetMax({r.local_id : r \in d.local_files} \cup {d.seq.local_files}) + 1 IN
  [db |-> [d EXCEPT !.local_files = {r \in @ : r.file_path # path} \cup
                     {[local_id |-> id, file_path |-> path, stash_file_id |-> stash_id]},
                    !.seq.local_files = id],
   rowcount |-> 1]

\* mutant: file_path is not UNIQUE, the insert always adds a row
InsertOrIgnoreFile_NotUnique(d, path, stash_id) ==
  LET id == SetMax({r.local_id : r \in d.local_files} \cup {d.seq.local_files}) + 1 IN
  [db |-> [d EXCEPT !.local_files = @ \cup
                     {[local_id |-> id, file_path |-> path, stash_file_id |-> stash_id]},
                    !.seq.local_files = id],
   rowcount |-> 1]

\* INSERT OR IGNORE INTO local_files (file_path, stash_file_id): file_path is
\* UNIQUE, a row with the same path makes the insert a no-op (rowcount 0)
InsertOrIgnoreFile(d, path, stash_id) ==
  IF \E r \in d.local_files : r.file_path = path
    THEN [db |-> d, rowcount |-> 0]
    ELSE LET id == NextId(d.seq.local_files, {r.local_id : r \in d.local_files}) IN
         [db |-> [d EXCEPT !.local_files = @ \cup
                            {[local_id |-> id, file_path |-> path, stash_file_id |-> stash_id]},
                           !.seq.local_files = id],
          rowcount |-> 1]

\* datetime.datetime.now(): the clock is logical, an instant later than every
\* ingested_at the database holds
Now(d) == SetMax({r.ingested_at : r \in d.edl_files} \cup {0}) + 1

\* mutant: filename is not UNIQUE, the insert always adds a row
InsertOrIgnoreEdlFile_NotUnique(d, filename) ==
  LET id == SetMax({r.edl_id : r \in d.edl_files} \cup {d.seq.edl_files}) + 1 IN
  [d EXCEPT !.edl_files = @ \cup
              {[edl_id |-> id, filename |-> filename, ingested_at |-> Now(d)]},
            !.seq.edl_files = id]

\* INSERT OR IGNORE INTO edl_files (filename, ingested_at): filename is UNIQUE
InsertOrIgnoreEdlFile(d, filename) ==
  IF \E r \in d.edl_files : r.filename = filename
    THEN d
    ELSE LET id == NextId(d.seq.edl_files, {r.edl_id : r \in d.edl_files}) IN
         [d EXCEPT !.edl_files = @ \cup
                     {[edl_id |-> id, filename |-> filename, ingested_at |-> Now(d)]},
                   !.seq.edl_files = id]

\* SELECT edl_id FROM edl_files WHERE filename = ?
SelectEdlId(d, filename) ==
  (CHOOSE r \in d.edl_files : r.filename = filename).edl_id

\* a column that holds no value
NULL == "NULL"

\* an edl_metadata row as the insert of (edl_id, style) leaves it; `texts`
\* stands for the columns text1 .. text10
MetadataRow(edl_id, style) ==
  [edl_id |-> edl_id, style |-> style, age_group |-> NULL, rating |-> NULL,
   power |-> NULL, texts |-> NULL]

\* mutant: INSERT OR REPLACE, the row of the source is written anew
InsertOrIgnoreMetadata_Replaces(d, edl_id, style) ==
  [d EXCEPT !.edl_metadata =
     {r \in @ : r.edl_id # edl_id} \cup {MetadataRow(edl_id, style)}]

\* INSERT OR IGNORE INTO edl_metadata (edl_id, style): edl_id is the key
InsertOrIgnoreMetadata(d, edl_id, style) ==
  IF \E r \in d.edl_metadata : r.edl_id = edl_id
    THEN d
    ELSE [d EXCEPT !.edl_metadata = @ \cup {MetadataRow(edl_id, style)}]

CutRow(edl_id, local_id, start_time_ms, length_ms) ==
  [edl_id |-> edl_id, local_file_id |-> local_id,
   start_time_ms |-> start_time_ms, length_ms |-> length_ms]

\* mutant: the ignored insert is reported as a row inserted
InsertOrIgnoreRecord_CountsIgnored(d, edl_id, local_id, start_time_ms, length_ms) ==
  LET row == CutRow(edl_id, local_id, start_time_ms, length_ms) IN
  IF BagIn(row, d.edl_records)
    THEN [db |-> d, rowcount |-> 1]
    ELSE [db |-> [d EXCEPT !.edl_records = @ (+) SetToBag({row})], rowcount |-> 1]

\* mutant: no UNIQUE constraint, the insert always adds a row
InsertOrIgnoreRecord_NotUnique(d, edl_id, local_id, start_time_ms, length_ms) ==
  LET row == CutRow(edl_id, local_id, start_time_ms, length_ms) IN
  [db |-> [d EXCEPT !.edl_records = @ (+) SetToBag({row})], rowcount |-> 1]

\* INSERT OR IGNORE INTO edl_records: UNIQUE(edl_id, local_file_id,
\* start_time_ms, length_ms) makes a second identical row a no-op
InsertOrIgnoreRecord(d, edl_id, local_id, start_time_ms, length_ms) ==
  LET row == CutRow(edl_id, local_id, start_time_ms, length_ms) IN
  IF BagIn(row, d.edl_records)
    THEN [db |-> d, rowcount |-> 0]
    ELSE [db |-> [d EXCEPT !.edl_records = @ (+) SetToBag({row})], rowcount |-> 1]

\* the rows of bag b that are in set S, with their multiplicities
Restrict(b, S) == [r \in S \cap BagToSet(b) |-> b[r]]

\* mutant: the cut records are matched on the wrong column
DeleteRecordsIn_WrongKey(d, ids) ==
  LET gone == {r \in BagToSet(d.edl_records) : r.edl_id \in ids} IN
  [db |-> [d EXCEPT !.edl_records = Restrict(@, BagToSet(@) \ gone)],
   rowcount |-> BagCardinality(Restrict(d.edl_records, gone))]

\* DELETE FROM edl_records WHERE local_file_id IN (ids)
DeleteRecordsIn(d, ids) ==
  LET gone == {r \in BagToSet(d.edl_records) : r.local_file_id \in ids} IN
  [db |-> [d EXCEPT !.edl_records = Restrict(@, BagToSet(@) \ gone)],
   rowcount |-> BagCardinality(Restrict(d.edl_records, gone))]

\* DELETE FROM local_files WHERE local_id IN (ids)
DeleteFilesIn(d, ids) ==
  LET gone == {r \in d.local_files : r.local_id \in ids} IN
  [db |-> [d EXCEPT !.local_files = @ \ gone], rowcount |-> Cardinality(gone)]

\* ------------------------------------------------------------------ state
\* The catalog and the EDL root are read once by the command that uses them:
\* they are inputs of that command.  The filesystem is read by sync and by the
\* integrity check and changes out of band.
VARIABLES
  fs,    \* the files that exist under the media root
  db,    \* the committed content of the local index database file
  pc,    \* where the running command stands
  run    \* the running (or just finished) command's local variables; of these
         \* `repeat` (this run directly repeats the previous one), `walked`
         \* (the filesystem was traversed), `before` (the database when the
         \* run started) and `outcome` are history

vars == <<fs, db, pc, run>>

NoCatalog == [readable |-> FALSE, rows |-> {}]

NoRun ==
  [ cmd                   |-> "none",
    rebuild               |-> FALSE,
    repeat                |-> FALSE,
    resumed               |-> FALSE,
    walked                |-> FALSE,
    catalog               |-> NoCatalog,
    edl                   |-> {},
    conn                  |-> AbsentDb,
    before                |-> AbsentDb,
    stash_files           |-> << >>,
    local_file_lookup     |-> << >>,
    todo                  |-> {},
    found_count           |-> 0,
    missing_count         |-> 0,
    new_files_added       |-> {},
    missing_log           |-> {},
    records_added_count   |-> 0,
    ingestion_log         |-> {},
    missing_files         |-> << >>,
    missing_ids           |-> << >>,
    user_input            |-> "",
    local_records_deleted |-> 0,
    edl_records_deleted   |-> 0,
    outcome               |-> "",
    exit                  |-> -1 ]

Init ==
  /\ fs = OtherPaths
  /\ db = AbsentDb
  /\ pc = "idle"
  /\ run = NoRun

\* ------------------------------------------------------------ environment
\* a media file appears or vanishes, between commands or while the cleanup
\* prompt blocks
FsChange(p) ==
  /\ pc \in {"idle", "prompt"}
  /\ fs' = IF p \in fs THEN fs \ {p} ELSE fs \cup {p}
  /\ UNCHANGED <<db, pc, run>>

\* the finished command's output scrolls away
Return ==
  /\ pc = "done"
  /\ pc' = "idle"
  /\ run' = NoRun
  /\ UNCHANGED <<fs, db>>

\* the command starting now with this catalog (or EDL root) directly follows
\* a run of the same command that read the same, nothing having changed since
Repeats(cmd, cat, edl) ==
  /\ pc = "done"
  /\ run.cmd = cmd
  /\ run.catalog = cat
  /\ run.edl = edl
  /\ run.outcome # "terminated"

\* the command starting now is the re-run of a run that was terminated, with
\* the same arguments and inputs, nothing having changed since
Resumes(cmd, rebuild, cat, edl) ==
  /\ pc = "done"
  /\ run.cmd = cmd
  /\ run.rebuild = rebuild
  /\ run.catalog = cat
  /\ run.edl = edl
  /\ run.outcome = "terminated"

\* a command may start when none is running: from the idle shell, or right
\* after a run of the same command on the same inputs
Ready(cmd, cat, edl) == pc = "idle" \/ Repeats(cmd, cat, edl)

Finished(r, outcome, exit) == [r EXCEPT !.outcome = outcome, !.exit = exit, !.todo = {}]

\* what is left of a run that was killed: its command line and, as history,
\* the database it started from; the exit status is that of a kill signal
Killed(r) ==
  [NoRun EXCEPT !.cmd = r.cmd, !.rebuild = r.rebuild, !.catalog = r.catalog,
                !.edl = r.edl, !.before = r.before, !.resumed = r.resumed,
                !.outcome = "terminated", !.exit = 137]

\* mutant: every insert is committed at once, a kill keeps the rows written
Terminate_KeepsWrites ==
  /\ pc \in {"sync_scan", "legacy_scan", "ingest_scan"}
  /\ pc' = "done"
  /\ run' = Killed(run)
  /\ db' = run.conn
  /\ UNCHANGED fs

\* the process of a sync or ingest run is killed during its scan: the open
\* transaction with the rows inserted so far is never committed
Terminate ==
  /\ pc \in {"sync_scan", "legacy_scan", "ingest_scan"}
  /\ pc' = "done"
  /\ run' = Killed(run)
  /\ UNCHANGED <<fs, db>>

\* ---------------------------------------------------- sync (sync_edl.py)
\* the rows a scan of `paths` inserts into d
WouldInsert(d, stash, paths) ==
  { p \in paths : /\ p \in DOMAIN stash.map
                  /\ ~\E r \in d.local_files : r.file_path = p }

\* mutant: rebuild mode does not remove the database file
SyncBegin_KeepsStore(rebuild, cat) ==
  /\ Ready("sync", cat, {}) \/ Resumes("sync", rebuild, cat, {})
  /\ LET removed  == db
         created  == create_local_db(removed)
         stash    == get_stash_files(cat)
         scan     == Walk(fs, MediaRoot, MEDIA_EXTENSIONS)
         r0       == [NoRun EXCEPT !.cmd = "sync", !.rebuild = rebuild, !.catalog = cat,
                        !.repeat = (~rebuild /\ Repeats("sync", cat, {})),
                        !.resumed = Resumes("sync", rebuild, cat, {}),
                        !.before = IF Resumes("sync", rebuild, cat, {}) THEN run.before ELSE db]
     IN
     /\ stash.ok =>
          Cardinality(WouldInsert(created, stash, scan)) + created.seq.local_files
            <= MaxLocalId
     /\ db' = created
     /\ IF ~stash.ok
          THEN /\ pc' = "done"
               /\ run' = Finished(r0, "catalog_unavailable", 0)
          ELSE IF get_file_count(fs, MediaRoot, MEDIA_EXTENSIONS) = 0
            THEN /\ pc' = "done"
                 /\ run' = Finished([r0 EXCEPT !.walked = TRUE], "no_media_files", 0)
            ELSE /\ pc' = "sync_scan"
                 /\ run' = [r0 EXCEPT !.walked = TRUE, !.conn = created,
                                      !.stash_files = stash.map, !.todo = scan]
  /\ UNCHANGED fs

\* sync_filesystem_with_stash up to the scan loop: rebuild, create_local_db,
\* get_stash_files, get_file_count
SyncBegin(rebuild, cat) ==
  /\ Ready("sync", cat, {}) \/ Resumes("sync", rebuild, cat, {})
  /\ LET removed  == IF rebuild /\ db.schema # "absent" THEN AbsentDb ELSE db
         created  == create_local_db(removed)
         stash    == get_stash_files(cat)
         scan     == Walk(fs, MediaRoot, MEDIA_EXTENSIONS)
         r0       == [NoRun EXCEPT !.cmd = "sync", !.rebuild = rebuild, !.catalog = cat,
                        !.repeat = (~rebuild /\ Repeats("sync", cat, {})),
                        !.resumed = Resumes("sync", rebuild, cat, {}),
                        !.before = IF Resumes("sync", rebuild, cat, {}) THEN run.before ELSE db]
     IN
     /\ stash.ok =>
          Cardinality(WouldInsert(created, stash, scan)) + created.seq.local_files
            <= MaxLocalId
     /\ db' = created
     /\ IF ~stash.ok
          THEN /\ pc' = "done"
               /\ run' = Finished(r0, "catalog_unavailable", 0)
          ELSE IF get_file_count(fs, MediaRoot, MEDIA_EXTENSIONS) = 0
            THEN /\ pc' = "done"
                 /\ run' = Finished([r0 EXCEPT !.walked = TRUE], "no_media_files", 0)
            ELSE /\ pc' = "sync_scan"
                 /\ run' = [r0 EXCEPT !.walked = TRUE, !.conn = created,
                                      !.stash_files = stash.map, !.todo = scan]
  /\ UNCHANGED fs

\* a sync run in rebuild mode is killed after os.remove and before
\* create_local_db has committed the schema
TerminateAfterRemove(cat) ==
  /\ Ready("sync", cat, {}) \/ Resumes("sync", TRUE, cat, {})
  /\ db.schema # "absent"
  /\ db' = AbsentDb
  /\ pc' = "done"
  /\ run' = Killed([NoRun EXCEPT
                      !.cmd = "sync", !.rebuild = TRUE, !.catalog = cat,
                      !.resumed = Resumes("sync", TRUE, cat, {}),
                      !.before = IF Resumes("sync", TRUE, cat, {}) THEN run.before ELSE db])
  /\ UNCHANGED fs

\* mutant: a candidate the catalog does not list is counted, not reported
SyncFile_MissingNotLogged(entry) ==
  /\ pc = "sync_scan"
  /\ entry \in run.todo
  /\ LET full_path == normpath(join(ButLast(entry), Last(entry))) IN
     IF full_path \in DOMAIN run.stash_files
       THEN LET ins == InsertOrIgnoreFile(run.conn, full_path, run.stash_files[full_path]) IN
            run' = [run EXCEPT
                      !.todo = @ \ {entry},
                      !.conn = ins.db,
                      !.found_count = IF ins.rowcount > 0 THEN @ + 1 ELSE @,
                      !.new_files_added = IF ins.rowcount > 0 THEN @ \cup {full_path} ELSE @]
       ELSE run' = [run EXCEPT
                      !.todo = @ \ {entry},
                      !.missing_count = @ + 1]
  /\ UNCHANGED <<fs, db, pc>>

\* one iteration of the scan loop, for one (dirpath, filename) of os.walk
SyncFile(entry) ==
  /\ pc = "sync_scan"
  /\ entry \in run.todo
  /\ LET full_path == normpath(join(ButLast(entry), Last(entry))) IN
     IF full_path \in DOMAIN run.stash_files
       THEN LET ins == InsertOrIgnoreFile(run.conn, full_path, run.stash_files[full_path]) IN
            run' = [run EXCEPT
                      !.todo = @ \ {entry},
                      !.conn = ins.db,
                      !.found_count = IF ins.rowcount > 0 THEN @ + 1 ELSE @,
                      !.new_files_added = IF ins.rowcount > 0 THEN @ \cup {full_path} ELSE @]
       ELSE run' = [run EXCEPT
                      !.todo = @ \ {entry},
                      !.missing_log = @ \cup {full_path},
                      !.missing_count = @ + 1]
  /\ UNCHANGED <<fs, db, pc>>

\* local_conn.commit(), close and the final report
SyncCommit ==
  /\ pc = "sync_scan"
  /\ run.todo = {}
  /\ db' = run.conn
  /\ pc' = "done"
  /\ run' = Finished(run, "ok", 0)
  /\ UNCHANGED fs

\* ------------------------------------------------- ingest (sync_edl.py)
Digits == {"0", "1", "2", "3", "4", "5", "6", "7", "8", "9"}

\* os.path.splitext(filename)[0]
splitext_root(name) ==
  IF Len(name) >= 3 /\ name[Len(name) - 1] = "."
    THEN SubSeq(name, 1, Len(name) - 2)
    ELSE IF Len(name) >= 2 /\ Lower(Last(name)) \in {".edl", ".mp4", ".txt"}
      THEN ButLast(name)
      ELSE name

\* the digits at the end of a name taken off
RECURSIVE DropDigits(_)
DropDigits(root) ==
  IF root # << >> /\ Last(root) \in Digits THEN DropDigits(ButLast(root)) ELSE root

\* mutant: re.sub(r'_chopped\d+-\d+$', '', root)
strip_chopped_Numbers(root) ==
  LET m    == DropDigits(root)
      dash == IF m # << >> /\ Last(m) = "-" THEN ButLast(m) ELSE << >>
      n    == DropDigits(dash)
  IN IF /\ m # root
        /\ dash # << >>
        /\ n # dash
        /\ n # << >>
        /\ Last(n) = "_chopped"
       THEN ButLast(n)
       ELSE root

\* re.sub(r'_chopped\d-\d$', '', root)
strip_chopped(root) ==
  IF /\ Len(root) >= 4
     /\ root[Len(root) - 3] = "_chopped"
     /\ root[Len(root) - 2] \in Digits
     /\ root[Len(root) - 1] = "-"
     /\ root[Len(root)] \in Digits
    THEN SubSeq(root, 1, Len(root) - 4)
    ELSE root

style_name(filename) == strip_chopped(splitext_root(filename))

RECURSIVE lstrip(_)
lstrip(lines) ==
  IF lines # << >> /\ Head(lines) = BlankLine THEN lstrip(Tail(lines)) ELSE lines

RECURSIVE rstrip(_)
rstrip(lines) ==
  IF lines # << >> /\ Last(lines) = BlankLine THEN rstrip(ButLast(lines)) ELSE lines

\* edl_file.read().strip().splitlines()
strip_splitlines(lines) == rstrip(lstrip(lines))

\* line.startswith('#')
StartsWithHash(line) ==
  /\ line # << >>
  /\ line[1].k = "text"
  /\ line[1].s \in {HEADER, "# comment", "# mpv EDL v1"}

\* mutant: the pattern lets a sign through, (-?\d+(?:\.\d+)?)
RecordMatch_Signed(line) ==
  /\ Len(line) >= 3
  /\ line[Len(line) - 1].k \in {"dec", "neg"}
  /\ line[Len(line)].k \in {"dec", "neg"}

\* re.match(r'^(.*),(\d+(?:\.\d+)?),(\d+(?:\.\d+)?)$', line): the last two
\* fields are unsigned decimals, everything before them is group 1
RecordMatch(line) ==
  /\ Len(line) >= 3
  /\ line[Len(line) - 1].k = "dec"
  /\ line[Len(line)].k = "dec"

\* the text of a field as a piece of a path
FieldPath(field) == IF field.k = "path" THEN field.p ELSE << <<field.s>> >>

\* the text a + "," + b of two pieces of a path
CommaJoin(a, b) ==
  ButLast(a) \o << Last(a) \o <<",">> \o Head(b) >> \o Tail(b)

\* the fields of a line put together again, commas included
RECURSIVE FieldsText(_)
FieldsText(g) ==
  IF Len(g) = 1 THEN FieldPath(g[1])
  ELSE CommaJoin(FieldsText(ButLast(g)), FieldPath(Last(g)))

\* mutant: line.split(','), the path is the first field
MatchPath_FirstField(line) == FieldPath(line[1])

\* group 1 as a path: (.*) is greedy and the two time groups are anchored at
\* the end of the line, so group 1 is everything before the last two fields
MatchPath(line) == FieldsText(SubSeq(line, 1, Len(line) - 2))

\* the fraction digits as thousandths (up to three digits)
FracMs(f) ==
  (IF Len(f) >= 1 THEN 100 * f[1] ELSE 0)
  + (IF Len(f) >= 2 THEN 10 * f[2] ELSE 0)
  + (IF Len(f) >= 3 THEN f[3] ELSE 0)

\* the decimal text as a whole number of thousandths
Thousandths(field) == 1000 * field.w + FracMs(field.f)

\* floor(log2(n)) for n >= 1
RECURSIVE Log2Floor(_)
Log2Floor(n) == IF n < 2 THEN 0 ELSE 1 + Log2Floor(n \div 2)

RECURSIVE Pow2(_)
Pow2(k) == IF k = 0 THEN 1 ELSE 2 * Pow2(k - 1)

\* 2^k modulo 1000
RECURSIVE Pow2Mod(_)
Pow2Mod(k) == IF k = 0 THEN 1 ELSE (2 * Pow2Mod(k - 1)) % 1000

\* the least j with n * 2^j >= 1000, for 1 <= n < 1000
RECURSIVE ShiftToThousand(_)
ShiftToThousand(n) == IF n >= 1000 THEN 0 ELSE 1 + ShiftToThousand(2 * n)

\* the binary exponent of the double nearest n/1000: floor(log2(n/1000))
SecondsExponent(n) ==
  IF n >= 1000 THEN Log2Floor(n \div 1000) ELSE 0 - ShiftToThousand(n)

\* float(text): n/1000 is rounded to a 53-bit significand. The remainder of
\* n * 2^(52 - e) modulo 1000 is what the rounding drops (below 500: rounded
\* down by that many thousandths of a unit in the last place, 0: exact)
DroppedThousandths(n) == ((n % 1000) * Pow2Mod(52 - SecondsExponent(n))) % 1000

\* float(text) * 1000: the product of the rounded double with 1000 is rounded
\* again, to the doubles around n. It lands on the double just below n when
\* float(text) was rounded down by more than half the spacing of the doubles
\* below n, counted in units in the last place of float(text)
ProductBelow(n) ==
  LET t    == DroppedThousandths(n)
      gap  == Log2Floor(n) - SecondsExponent(n)
      half == IF n = Pow2(Log2Floor(n)) THEN Pow2(gap - 2) ELSE Pow2(gap - 1)
  IN  0 < t /\ t < 500 /\ t > half

\* ... and on the double just above n when float(text) was rounded up by more
\* than half the spacing of the doubles above n
ProductAbove(n) ==
  LET t   == DroppedThousandths(n)
      gap == Log2Floor(n) - SecondsExponent(n)
  IN  t > 500 /\ 1000 - t > Pow2(gap - 1)

\* a double: the whole number `whole`, or its neighbour `ulps` doubles away
Double(whole, ulps) == [whole |-> whole, ulps |-> ulps]

\* int(float(text) * 1000): the product cut to a whole number
ToMs_Truncated(field) ==
  LET n == Thousandths(field) IN
  Double(IF n > 0 /\ ProductBelow(n) THEN n - 1 ELSE n, 0)

\* float(text) * 1000, stored as it is in the REAL column
\* (10.5 -> 10500.0, 1.001 -> 1000.9999999999999, 2.007 -> 2007.0000000000002);
\* float() reads a minus sign, and the product of the negated text is the
\* negated product
ToMs(field) ==
  LET n    == Thousandths(field)
      sign == IF field.k = "neg" THEN 0 - 1 ELSE 1
  IN
  Double(sign * n, IF n = 0 THEN 0
                   ELSE IF ProductBelow(n) THEN sign * (0 - 1)
                   ELSE IF ProductAbove(n) THEN sign
                   ELSE 0)

\* local_file_lookup: normalized file_path -> local_id
BuildLookup(d) ==
  [p \in {normpath(r.file_path) : r \in d.local_files} |->
     (CHOOSE r \in d.local_files : normpath(r.file_path) = p).local_id]

LogEntry(file, line_number, kind) == [file |-> file, line |-> line_number, kind |-> kind]

RECURSIVE IngestLines(_, _, _, _, _, _)

\* mutant: an unparsed line ends the processing of its file
IngestLines_StopAtUnparsed(lines, n, full_edl_path, edl_id, lookup, acc) ==
  IF n > Len(lines) THEN acc
  ELSE
    LET line == lines[n] IN
    IF line = BlankLine \/ StartsWithHash(line)
      THEN IngestLines(lines, n + 1, full_edl_path, edl_id, lookup, acc)
    ELSE IF RecordMatch(line)
      THEN LET normalized_path == normpath(MatchPath(line)) IN
           IF normalized_path \in DOMAIN lookup
             THEN LET ins == InsertOrIgnoreRecord(acc.conn, edl_id,
                               lookup[normalized_path],
                               ToMs(line[Len(line) - 1]), ToMs(line[Len(line)]))
                  IN IngestLines(lines, n + 1, full_edl_path, edl_id, lookup,
                       [acc EXCEPT !.conn = ins.db,
                                   !.added = IF ins.rowcount > 0 THEN @ + 1 ELSE @])
             ELSE IngestLines(lines, n + 1, full_edl_path, edl_id, lookup,
                    [acc EXCEPT !.log = @ \cup {LogEntry(full_edl_path, n, "not_in_local_db")}])
      ELSE [acc EXCEPT !.log = @ \cup {LogEntry(full_edl_path, n, "unparsed_line")}]

\* the body of `for line_number, line in enumerate(lines[1:], 2)` from line
\* number n on; acc is [conn, added, log]
IngestLines(lines, n, full_edl_path, edl_id, lookup, acc) ==
  IF n > Len(lines) THEN acc
  ELSE
    LET line == lines[n]
        next ==
          IF line = BlankLine \/ StartsWithHash(line) THEN acc
          ELSE IF RecordMatch(line)
            THEN LET normalized_path == normpath(MatchPath(line)) IN
                 IF normalized_path \in DOMAIN lookup
                   THEN LET ins == InsertOrIgnoreRecord(acc.conn, edl_id,
                                     lookup[normalized_path],
                                     ToMs(line[Len(line) - 1]), ToMs(line[Len(line)]))
                        IN [acc EXCEPT !.conn = ins.db,
                                       !.added = IF ins.rowcount > 0 THEN @ + 1 ELSE @]
                   ELSE [acc EXCEPT !.log = @ \cup {LogEntry(full_edl_path, n, "not_in_local_db")}]
            ELSE [acc EXCEPT !.log = @ \cup {LogEntry(full_edl_path, n, "unparsed_line")}]
    IN IngestLines(lines, n + 1, full_edl_path, edl_id, lookup, next)

\* mutant: the first line is not checked against the header
IngestOneFile_HeaderNotChecked(e, lookup, acc) ==
  LET full_edl_path == join(ButLast(e.path), Last(e.path))
      filename      == Last(e.path)
      lines         == strip_splitlines(e.lines)
  IN
  IF lines = << >>
    THEN [acc EXCEPT !.log = @ \cup {LogEntry(full_edl_path, 0, "empty")}]
  ELSE IF acc.conn.schema # "full"
    THEN [acc EXCEPT !.log = @ \cup {LogEntry(full_edl_path, 0, "error_processing")}]
  ELSE
    LET d1     == InsertOrIgnoreEdlFile(acc.conn, filename)
        edl_id == SelectEdlId(d1, filename)
        d2     == InsertOrIgnoreMetadata(d1, edl_id, style_name(filename))
    IN IngestLines(lines, 2, full_edl_path, edl_id, lookup, [acc EXCEPT !.conn = d2])

\* the body of the per-file try block; acc is [conn, added, log]
\* the path of a cut-list below the EDL root, as one name: sub/x.edl
RECURSIVE RelativeName(_)
RelativeName(p) ==
  IF Len(p) = 1 THEN p[1] ELSE p[1] \o <<"/">> \o RelativeName(Tail(p))

\* mutant: the source is keyed by the path below the root, not the base name
IngestOneFile_KeyedByPath(e, lookup, acc) ==
  LET full_edl_path == join(ButLast(e.path), Last(e.path))
      filename      == RelativeName(SubSeq(e.path, Len(EdlRoot) + 1, Len(e.path)))
      lines         == strip_splitlines(e.lines)
  IN
  IF lines = << >>
    THEN [acc EXCEPT !.log = @ \cup {LogEntry(full_edl_path, 0, "empty")}]
  ELSE IF strip(lines[1]) # HeaderLine
    THEN [acc EXCEPT !.log = @ \cup {LogEntry(full_edl_path, 1, "invalid_header")}]
  ELSE IF acc.conn.schema # "full"
    THEN [acc EXCEPT !.log = @ \cup {LogEntry(full_edl_path, 0, "error_processing")}]
  ELSE
    LET d1     == InsertOrIgnoreEdlFile(acc.conn, filename)
        edl_id == SelectEdlId(d1, filename)
        d2     == InsertOrIgnoreMetadata(d1, edl_id, style_name(filename))
    IN IngestLines(lines, 2, full_edl_path, edl_id, lookup, [acc EXCEPT !.conn = d2])

IngestOneFile(e, lookup, acc) ==
  LET full_edl_path == join(ButLast(e.path), Last(e.path))
      filename      == Last(e.path)
      lines         == strip_splitlines(e.lines)
  IN
  IF lines = << >>
    THEN [acc EXCEPT !.log = @ \cup {LogEntry(full_edl_path, 0, "empty")}]
  ELSE IF strip(lines[1]) # HeaderLine
    THEN [acc EXCEPT !.log = @ \cup {LogEntry(full_edl_path, 1, "invalid_header")}]
  ELSE IF acc.conn.schema # "full"
    \* no such table: edl_files -> sqlite3.OperationalError, caught per file
    THEN [acc EXCEPT !.log = @ \cup {LogEntry(full_edl_path, 0, "error_processing")}]
  ELSE
    LET d1     == InsertOrIgnoreEdlFile(acc.conn, filename)
        edl_id == SelectEdlId(d1, filename)
        d2     == InsertOrIgnoreMetadata(d1, edl_id, style_name(filename))
    IN IngestLines(lines, 2, full_edl_path, edl_id, lookup, [acc EXCEPT !.conn = d2])

EdlWalk(files, root) ==
  { e \in files : IsUnder(root, e.path) /\ HasExtension(Last(e.path), EDL_EXTENSIONS) }

\* ingest_edl_files up to the loop over the files
IngestBegin(edl) ==
  /\ Ready("ingest", NoCatalog, edl) \/ Resumes("ingest", FALSE, NoCatalog, edl)
  /\ LET r0     == [NoRun EXCEPT !.cmd = "ingest", !.edl = edl,
                      !.repeat = Repeats("ingest", NoCatalog, edl),
                      !.resumed = Resumes("ingest", FALSE, NoCatalog, edl),
                      !.before = IF Resumes("ingest", FALSE, NoCatalog, edl) THEN run.before ELSE db]
         lookup == BuildLookup(db)
         scan   == EdlWalk(edl, EdlRoot)
     IN
     IF db.schema = "absent"
       THEN /\ pc' = "done"
            /\ run' = Finished(r0, "store_missing", 1)
       ELSE IF get_file_count({e.path : e \in edl}, EdlRoot, EDL_EXTENSIONS) = 0
         THEN /\ pc' = "done"
              /\ run' = Finished([r0 EXCEPT !.walked = TRUE], "no_edl_files", 0)
         ELSE /\ pc' = "ingest_scan"
              /\ run' = [r0 EXCEPT !.walked = TRUE, !.conn = db,
                                   !.local_file_lookup = lookup, !.todo = scan]
  /\ UNCHANGED <<fs, db>>

\* one iteration of the loop over the cut-list files
IngestFile(e) ==
  /\ pc = "ingest_scan"
  /\ e \in run.todo
  /\ LET res == IngestOneFile(e, run.local_file_lookup,
                  [conn |-> run.conn, added |-> run.records_added_count,
                   log |-> run.ingestion_log])
     IN run' = [run EXCEPT !.todo = @ \ {e},
                           !.conn = res.conn,
                           !.records_added_count = res.added,
                           !.ingestion_log = res.log]
  /\ UNCHANGED <<fs, db, pc>>

\* local_conn.commit(), close and the final report
IngestCommit ==
  /\ pc = "ingest_scan"
  /\ run.todo = {}
  /\ db' = run.conn
  /\ pc' = "done"
  /\ run' = Finished(run, "ok", 0)
  /\ UNCHANGED fs

\* ------------------------------- sync (file_sys_stash_untilities.py)
\* INSERT INTO local_files: a row with the same path raises IntegrityError
InsertFile(d, path, stash_id) ==
  IF \E r \in d.local_files : r.file_path = path
    THEN [db |-> d, ok |-> FALSE]
    ELSE LET id == NextId(d.seq.local_files, {r.local_id : r \in d.local_files}) IN
         [db |-> [d EXCEPT !.local_files = @ \cup
                            {[local_id |-> id, file_path |-> path, stash_file_id |-> stash_id]},
                           !.seq.local_files = id],
          ok |-> TRUE]

\* sync_filesystem_with_stash of the older script, up to its scan loop
LegacySyncBegin(cat) ==
  /\ Ready("legacy_sync", cat, {}) \/ Resumes("legacy_sync", FALSE, cat, {})
  /\ LET created  == legacy_create_local_db(db)
         stash    == get_stash_files(cat)
         scan     == Walk(fs, MediaRoot, LEGACY_MEDIA_EXTENSIONS)
         r0       == [NoRun EXCEPT !.cmd = "legacy_sync", !.catalog = cat,
                        !.repeat = Repeats("legacy_sync", cat, {}),
                        !.resumed = Resumes("legacy_sync", FALSE, cat, {}),
                        !.before = IF Resumes("legacy_sync", FALSE, cat, {}) THEN run.before ELSE db]
     IN
     /\ stash.ok =>
          Cardinality(WouldInsert(created, stash, scan)) + created.seq.local_files
            <= MaxLocalId
     /\ db' = created
     /\ IF ~stash.ok
          THEN /\ pc' = "done"
               /\ run' = Finished(r0, "catalog_unavailable", 0)
          ELSE IF get_file_count(fs, MediaRoot, LEGACY_MEDIA_EXTENSIONS) = 0
            THEN /\ pc' = "done"
                 /\ run' = Finished([r0 EXCEPT !.walked = TRUE], "no_media_files", 0)
            ELSE /\ pc' = "legacy_scan"
                 /\ run' = [r0 EXCEPT !.walked = TRUE, !.conn = created,
                                      !.stash_files = stash.map, !.todo = scan]
  /\ UNCHANGED fs

\* one iteration of the older script's scan loop
LegacySyncFile(entry) ==
  /\ pc = "legacy_scan"
  /\ entry \in run.todo
  /\ LET full_path == normpath(join(ButLast(entry), Last(entry))) IN
     IF full_path \in DOMAIN run.stash_files
       THEN LET ins == InsertFile(run.conn, full_path, run.stash_files[full_path]) IN
            run' = [run EXCEPT
                      !.todo = @ \ {entry},
                      !.conn = ins.db,
                      !.found_count = IF ins.ok THEN @ + 1 ELSE @]
       ELSE run' = [run EXCEPT
                      !.todo = @ \ {entry},
                      !.missing_log = @ \cup {full_path},
                      !.missing_count = @ + 1]
  /\ UNCHANGED <<fs, db, pc>>

LegacySyncCommit ==
  /\ pc = "legacy_scan"
  /\ run.todo = {}
  /\ db' = run.conn
  /\ pc' = "done"
  /\ run' = Finished(run, "ok", 0)
  /\ UNCHANGED fs

\* ------------------------------- integrity check (util_back_check.py)
\* SELECT local_id, file_path FROM local_files: the rows in rowid order
RECURSIVE all_files(_)
all_files(rows) ==
  IF rows = {} THEN << >>
  ELSE LET r == CHOOSE x \in rows : \A y \in rows : x.local_id <= y.local_id IN
       << r >> \o all_files(rows \ {r})

\* os.path.exists(file_path)
exists(files, file_path) == normpath(file_path) \in files

\* mutant: the ids are collected in the opposite order to the paths
check_filesystem_integrity_Misaligned(d, files) ==
  IF d.schema = "absent"
    THEN [missing_files |-> << >>, missing_ids |-> << >>, outcome |-> "store_missing"]
  ELSE IF d.local_files = {}
    THEN [missing_files |-> << >>, missing_ids |-> << >>, outcome |-> "empty_index"]
  ELSE
    LET Missing(r) == ~exists(files, r.file_path)
        gone       == SelectSeq(all_files(d.local_files), Missing)
    IN [missing_files |-> [i \in 1..Len(gone) |-> gone[i].file_path],
        missing_ids   |-> [i \in 1..Len(gone) |-> gone[Len(gone) + 1 - i].local_id],
        outcome       |-> "checked"]

\* check_filesystem_integrity: (missing_files, missing_ids)
check_filesystem_integrity(d, files) ==
  IF d.schema = "absent"
    THEN [missing_files |-> << >>, missing_ids |-> << >>, outcome |-> "store_missing"]
  ELSE IF d.local_files = {}
    THEN [missing_files |-> << >>, missing_ids |-> << >>, outcome |-> "empty_index"]
  ELSE
    LET Missing(r) == ~exists(files, r.file_path)
        gone       == SelectSeq(all_files(d.local_files), Missing)
    IN [missing_files |-> [i \in 1..Len(gone) |-> gone[i].file_path],
        missing_ids   |-> [i \in 1..Len(gone) |-> gone[i].local_id],
        outcome       |-> "checked"]

Range(seq) == {seq[i] : i \in 1..Len(seq)}

\* mutant: the cleanup also removes the sources left without a cut record
delete_stale_records_PurgesSources(d, missing_ids) ==
  IF d.schema # "full"
    THEN [db |-> d, crashed |-> TRUE, local_records_deleted |-> 0, edl_records_deleted |-> 0]
    ELSE LET recs  == DeleteRecordsIn(d, Range(missing_ids))
             files == DeleteFilesIn(recs.db, Range(missing_ids))
             used  == {r.edl_id : r \in BagToSet(files.db.edl_records)}
         IN [db |-> [files.db EXCEPT !.edl_files = {s \in @ : s.edl_id \in used},
                                     !.edl_metadata = {m \in @ : m.edl_id \in used}],
             crashed |-> FALSE,
             local_records_deleted |-> files.rowcount,
             edl_records_deleted   |-> recs.rowcount]

\* mutant: only the file rows are deleted, their cut records stay
delete_stale_records_KeepsRecords(d, missing_ids) ==
  IF d.schema # "full"
    THEN [db |-> d, crashed |-> TRUE, local_records_deleted |-> 0, edl_records_deleted |-> 0]
    ELSE LET files == DeleteFilesIn(d, Range(missing_ids))
         IN [db |-> files.db, crashed |-> FALSE,
             local_records_deleted |-> files.rowcount,
             edl_records_deleted   |-> 0]

\* delete_stale_records: cut records first, then the file rows, one commit.
\* Without an edl_records table the first DELETE raises and nothing is written.
delete_stale_records(d, missing_ids) ==
  IF d.schema # "full"
    THEN [db |-> d, crashed |-> TRUE, local_records_deleted |-> 0, edl_records_deleted |-> 0]
    ELSE LET recs  == DeleteRecordsIn(d, Range(missing_ids))
             files == DeleteFilesIn(recs.db, Range(missing_ids))
         IN [db |-> files.db, crashed |-> FALSE,
             local_records_deleted |-> files.rowcount,
             edl_records_deleted   |-> recs.rowcount]

\* what the operator may type at the prompt
Inputs == {"yes", "y", " Yes ", "no", "n", "NO", "maybe", ""}

\* input(prompt).strip().lower()
strip_lower(text) ==
  CASE text = " Yes " -> "yes"
    [] text = "NO" -> "no"
    [] OTHER -> text

\* mutant: whatever is not a refusal counts as consent
IsYes_AnythingButNo(user_input) == user_input \notin {"no", "n"}

IsYes(user_input) == user_input \in {"yes", "y"}

IsNo(user_input) == user_input \in {"no", "n"}

\* main, phases 1 and 2: the check and the report of the missing files
CheckBegin ==
  /\ Ready("check", NoCatalog, {})
  /\ LET res == check_filesystem_integrity(db, fs)
         r0  == [NoRun EXCEPT !.cmd = "check", !.before = db,
                              !.missing_files = res.missing_files,
                              !.missing_ids = res.missing_ids]
     IN IF res.missing_files = << >>
          THEN /\ pc' = "done"
               /\ run' = Finished(r0, IF res.outcome = "checked" THEN "all_found"
                                                                  ELSE res.outcome, 0)
          ELSE /\ pc' = "prompt"
               /\ run' = r0
  /\ UNCHANGED <<fs, db>>

\* mutant: the two branches of the prompt loop are swapped
Answer_Swapped(text) ==
  /\ pc = "prompt"
  /\ LET user_input == strip_lower(text) IN
     IF user_input \in {"no", "n"}
       THEN LET res == delete_stale_records(db, run.missing_ids) IN
            /\ db' = res.db
            /\ pc' = "done"
            /\ run' = Finished([run EXCEPT
                                  !.user_input = user_input,
                                  !.local_records_deleted = res.local_records_deleted,
                                  !.edl_records_deleted = res.edl_records_deleted],
                               "cancelled", 0)
       ELSE IF user_input \in {"yes", "y"}
         THEN /\ db' = db
              /\ pc' = "done"
              /\ run' = Finished([run EXCEPT !.user_input = user_input], "cleaned", 0)
         ELSE /\ db' = db
              /\ pc' = "prompt"
              /\ run' = [run EXCEPT !.user_input = user_input]
  /\ UNCHANGED fs

\* mutant: the existence test is made again when the operator confirms
Answer_Rechecks(text) ==
  /\ pc = "prompt"
  /\ LET user_input == strip_lower(text) IN
     IF IsYes(user_input)
       THEN LET now == check_filesystem_integrity(db, fs)
                res == delete_stale_records(db, now.missing_ids)
            IN
            /\ db' = res.db
            /\ pc' = "done"
            /\ run' = Finished([run EXCEPT
                                  !.user_input = user_input,
                                  !.local_records_deleted = res.local_records_deleted,
                                  !.edl_records_deleted = res.edl_records_deleted],
                               IF res.crashed THEN "uncaught_error" ELSE "cleaned",
                               IF res.crashed THEN 1 ELSE 0)
       ELSE IF IsNo(user_input)
         THEN /\ db' = db
              /\ pc' = "done"
              /\ run' = Finished([run EXCEPT !.user_input = user_input], "cancelled", 0)
         ELSE /\ db' = db
              /\ pc' = "prompt"
              /\ run' = [run EXCEPT !.user_input = user_input]
  /\ UNCHANGED fs

\* main, phase 3: one pass of the prompt loop
Answer(text) ==
  /\ pc = "prompt"
  /\ LET user_input == strip_lower(text) IN
     IF IsYes(user_input)
       THEN LET res == delete_stale_records(db, run.missing_ids) IN
            /\ db' = res.db
            /\ pc' = "done"
            /\ run' = Finished([run EXCEPT
                                  !.user_input = user_input,
                                  !.local_records_deleted = res.local_records_deleted,
                                  !.edl_records_deleted = res.edl_records_deleted],
                               IF res.crashed THEN "uncaught_error" ELSE "cleaned",
                               IF res.crashed THEN 1 ELSE 0)
       ELSE IF IsNo(user_input)
         THEN /\ db' = db
              /\ pc' = "done"
              /\ run' = Finished([run EXCEPT !.user_input = user_input], "cancelled", 0)
         ELSE /\ db' = db
              /\ pc' = "prompt"
              /\ run' = [run EXCEPT !.user_input = user_input]
  /\ UNCHANGED fs

\* ---------------------------------------------------------- specifications
\* the commands of sync_edl.py and util_back_check.py
Next ==
  \/ \E p \in MediaPaths : FsChange(p)
  \/ Return
  \/ \E rebuild \in BOOLEAN, cat \in Catalogs : SyncBegin(rebuild, cat)
  \/ \E entry \in MediaPaths : SyncFile(entry)
  \/ SyncCommit
  \/ \E edl \in EdlRoots : IngestBegin(edl)
  \/ \E e \in EdlCandidates : IngestFile(e)
  \/ IngestCommit
  \/ CheckBegin
  \/ \E text \in Inputs : Answer(text)

Spec == Init /\ [][Next]_vars

\* the same, with the older sync script run against the same database
LegacyNext ==
  \/ Next
  \/ \E cat \in Catalogs : LegacySyncBegin(cat)
  \/ \E entry \in MediaPaths : LegacySyncFile(entry)
  \/ LegacySyncCommit

SpecLegacy == Init /\ [][LegacyNext]_vars

\* ------------------------------------------------- external curation
\* the columns of edl_metadata are filled in by hand or by other tools between
\* the runs: UPDATE edl_metadata SET <column> = <value> WHERE edl_id = ?
Curations == { <<"style", << <<"curated">> >> >>, <<"rating", <<"5">> >> }

EditMetadata(edl_id, column, value) ==
  /\ pc = "idle"
  /\ \E m \in db.edl_metadata : m.edl_id = edl_id
  /\ db' = [db EXCEPT !.edl_metadata =
              { IF m.edl_id = edl_id THEN [m EXCEPT ![column] = value] ELSE m : m \in @ }]
  /\ UNCHANGED <<fs, pc, run>>

\* EDL roots with one cut-list file
CurateRoots == { {EdlX}, {EdlSubX}, {EdlY} }

\* sync and ingest on one catalog, with curation of the metadata in between
CurateNext ==
  \/ \E p \in MediaPaths : FsChange(p)
  \/ Return
  \/ \E rebuild \in BOOLEAN : SyncBegin(rebuild, [readable |-> TRUE, rows |-> CatalogRows])
  \/ \E entry \in MediaPaths : SyncFile(entry)
  \/ SyncCommit
  \/ \E edl \in CurateRoots : IngestBegin(edl)
  \/ \E e \in EdlCandidates : IngestFile(e)
  \/ IngestCommit
  \/ \E edl_id \in 1..MaxEdlFiles, c \in Curations : EditMetadata(edl_id, c[1], c[2][1])

SpecCurate == Init /\ [][CurateNext]_vars

\* --------------------------------------------- the query path (query_edl.py)
\* SELECT start_time_ms / 1000.0, length_ms / 1000.0: the stored double as
\* seconds, read to millisecond precision (three fraction digits); a
\* neighbouring double of a whole number of milliseconds reads as that number
ToSeconds(ms) ==
  DecField(ms.whole \div 1000,
           << (ms.whole % 1000) \div 100, (ms.whole % 100) \div 10, ms.whole % 10 >>)

\* ------------------------------------------- cut-lists of one record line
ConvertWholes == {0, 1, 2, 3, 10}

ConvertFractions == { << >>, <<5>>, <<2, 5>>, <<0, 0, 1>>, <<0, 0, 7>> }

\* non-negative decimals of at most millisecond precision
ConvertDecimals == { DecField(w, f) : w \in ConvertWholes, f \in ConvertFractions }

\* /edl/t.edl: the header and one record line for file A
ConvertEdl(s, l) ==
  [ path  |-> << <<"edl">>, <<"t", ".edl">> >>,
    lines |-> << HeaderLine, RecLine(PathA, s, l) >> ]

ConvertFiles == { ConvertEdl(s, l) : s \in ConvertDecimals, l \in ConvertDecimals }

\* a rebuilding sync indexes file A, then one cut-list of one record line is
\* ingested into the store while it holds no cut record
ConvertNext ==
  \/ FsChange(PathA)
  \/ Return
  \/ SyncBegin(TRUE, [readable |-> TRUE, rows |-> CatalogRows])
  \/ \E entry \in MediaPaths : SyncFile(entry)
  \/ SyncCommit
  \/ \E e \in ConvertFiles : db.edl_records = EmptyBag /\ IngestBegin({e})
  \/ \E e \in ConvertFiles : IngestFile(e)
  \/ IngestCommit

SpecConvert == Init /\ [][ConvertNext]_vars

\* sync and ingest with a file whose name holds a comma
CommaNext ==
  \/ \E p \in CommaPaths : FsChange(p)
  \/ Return
  \/ \E rebuild \in BOOLEAN, rows \in SUBSET CommaCatalogRows :
       SyncBegin(rebuild, [readable |-> TRUE, rows |-> rows])
  \/ \E entry \in CommaPaths : SyncFile(entry)
  \/ SyncCommit
  \/ \E edl \in CommaRoots : IngestBegin(edl)
  \/ \E e \in EdlCandidates \cup {EdlComma} : IngestFile(e)
  \/ IngestCommit

SpecComma == Init /\ [][CommaNext]_vars

\* a sync creates the store, then cut-lists of several names are ingested
StyleNext ==
  \/ FsChange(PathA)
  \/ Return
  \/ SyncBegin(TRUE, [readable |-> TRUE, rows |-> CatalogRows])
  \/ \E entry \in MediaPaths : SyncFile(entry)
  \/ SyncCommit
  \/ \E edl \in StyleRoots : IngestBegin(edl)
  \/ \E e \in StyleFiles : IngestFile(e)
  \/ IngestCommit

SpecStyle == Init /\ [][StyleNext]_vars

\* the commands of Spec, with runs that are killed before they end
TerminateNext ==
  \/ Next
  \/ Terminate
  \/ \E cat \in Catalogs : TerminateAfterRemove(cat)

SpecTerminate == Init /\ [][TerminateNext]_vars

\* ------------------------------------------------------------- properties
Rows(d) == <<d.local_files, d.edl_files, d.edl_metadata, d.edl_records>>

SyncScanned  == pc = "sync_scan" /\ run.todo = {}

LegacyScanned == pc = "legacy_scan" /\ run.todo = {}

IngestScanned == pc = "ingest_scan" /\ run.todo = {}

\* C1: a non-rebuild sync that directly repeats a sync of the same script on
\* the same catalog and an untouched filesystem reports no newly added file
\* and is about to commit exactly the local_files rows the store already holds.
C1_SyncTwiceAddsNothing ==
  /\ (SyncScanned \/ LegacyScanned) /\ run.repeat =>
       /\ run.found_count = 0
       /\ run.new_files_added = {}
       /\ run.conn.local_files = db.local_files
  /\ pc = "done" /\ run.cmd \in {"sync", "legacy_sync"} /\ run.repeat =>
       /\ run.found_count = 0
       /\ run.new_files_added = {}

\* the second of two syncs has scanned a tree whose files are already indexed
C1_Witness ==
  /\ SyncScanned
  /\ run.repeat
  /\ Cardinality(db.local_files) = 2
  /\ run.missing_count = 0

\* the lines of a cut-list file as the ingest reads them
ReadLines(e) == strip_splitlines(e.lines)

\* the cut-list files of an EDL root whose header is accepted
Accepted(edl) ==
  { e \in EdlWalk(edl, EdlRoot) : ReadLines(e) # << >> /\ strip(ReadLines(e)[1]) = HeaderLine }

\* line n of file e is a record line: not blank, no comment, matches the pattern
IsRecordLine(e, n) ==
  LET line == ReadLines(e)[n] IN
  /\ line # BlankLine
  /\ ~StartsWithHash(line)
  /\ RecordMatch(line)

\* line n of file e is malformed: not blank, no comment, fails the pattern
IsMalformedLine(e, n) ==
  LET line == ReadLines(e)[n] IN
  /\ line # BlankLine
  /\ ~StartsWithHash(line)
  /\ ~RecordMatch(line)

\* the (file, line number) pairs of the record lines of the accepted files of
\* `edl` whose path is indexed in store d
ResolvableLines(edl, d) ==
  { x \in UNION { {<<e, n>> : n \in 2..Len(ReadLines(e))} : e \in Accepted(edl) } :
      /\ IsRecordLine(x[1], x[2])
      /\ \E r \in d.local_files : r.file_path = normpath(MatchPath(ReadLines(x[1])[x[2]])) }

\* the row record line <<e, n>> stands for: its file resolved in store d, its
\* EDL source looked up in store d2
RowOfLine(x, d, d2) ==
  LET line == ReadLines(x[1])[x[2]] IN
  CutRow((CHOOSE src \in d2.edl_files : src.filename = Last(x[1].path)).edl_id,
         (CHOOSE r \in d.local_files : r.file_path = normpath(MatchPath(line))).local_id,
         ToMs(line[Len(line) - 1]),
         ToMs(line[Len(line)]))

\* one row per distinct (source, file, start, length) among the record lines
ResolvedRows(edl, d, d2) == { RowOfLine(x, d, d2) : x \in ResolvableLines(edl, d) }

\* C2: an ingest run reports as added exactly the rows it adds, one per
\* distinct resolvable record line that the store does not hold yet; a run
\* that directly repeats an ingest of the same EDL root adds no record and is
\* about to commit the cut records the store already holds.
C2_IngestTwiceAddsNothing ==
  IngestScanned =>
    /\ run.records_added_count =
         Cardinality(ResolvedRows(run.edl, db, run.conn) \ BagToSet(db.edl_records))
    /\ run.records_added_count =
         BagCardinality(run.conn.edl_records) - BagCardinality(db.edl_records)
    /\ run.repeat =>
         /\ run.records_added_count = 0
         /\ run.conn.edl_records = db.edl_records

\* the second ingest of a cut-list whose records are in the store has run
C2_Witness ==
  /\ IngestScanned
  /\ run.repeat
  /\ EdlX \in run.edl
  /\ BagCardinality(db.edl_records) >= 2

\* the rows of bag b whose file is not among ids, with their multiplicities
Surviving(b, ids) == [r \in {x \in BagToSet(b) : x.local_file_id \notin ids} |-> b[r]]

\* C3: a confirmed cleanup removes exactly the local_files rows whose ids are
\* in the missing set found in phase 1 and exactly the cut records that
\* reference one of them, leaves edl_files and edl_metadata as they were, and
\* reports the number of rows it removed from each of the two relations.
C3_CleanupRemovesExactly ==
  [][ (pc = "prompt" /\ pc' = "done" /\ run'.user_input \in {"yes", "y"}) =>
        LET ids == {run.missing_ids[i] : i \in 1..Len(run.missing_ids)} IN
        /\ db'.local_files = {r \in db.local_files : r.local_id \notin ids}
        /\ db'.edl_records = Surviving(db.edl_records, ids)
        /\ db'.edl_files = db.edl_files
        /\ db'.edl_metadata = db.edl_metadata
        /\ run'.local_records_deleted =
             Cardinality(db.local_files) - Cardinality(db'.local_files)
        /\ run'.local_records_deleted = Len(run.missing_ids)
        /\ run'.edl_records_deleted =
             BagCardinality(db.edl_records) - BagCardinality(db'.edl_records) ]_vars

\* a cleanup has removed a file with its cut records while another file and
\* its cut records stay
C3_Witness ==
  /\ pc = "done"
  /\ run.outcome = "cleaned"
  /\ run.local_records_deleted = 1
  /\ run.edl_records_deleted >= 1
  /\ Cardinality(db.local_files) = 1
  /\ BagCardinality(db.edl_records) >= 1
  /\ db.edl_files # {}

\* C4: in an integrity-check run the store changes only in the step in which
\* the operator answers yes or y; an answer that is neither yes/y nor no/n
\* leaves the store unchanged and the prompt is asked again; the run leaves
\* the prompt only on yes/y or no/n.
C4_NoDeletionBeforeYes ==
  [][ /\ run'.cmd = "check" /\ db' # db =>
           pc = "prompt" /\ run'.user_input \in {"yes", "y"}
      /\ pc = "prompt" /\ run'.user_input \notin {"yes", "y", "no", "n"} =>
           pc' = "prompt" /\ db' = db
      /\ pc = "prompt" /\ pc' # "prompt" =>
           run'.user_input \in {"yes", "y", "no", "n"} ]_vars

\* the prompt is asked again after an ambiguous answer, the stale row still there
C4_Witness ==
  /\ pc = "prompt"
  /\ run.user_input = "maybe"
  /\ \E r \in db.local_files : r.local_id \in {run.missing_ids[i] : i \in 1..Len(run.missing_ids)}

\* C5: an integrity-check run that the operator refuses ends with the store
\* (all four relations, the schema and the id counters) as it was when the run
\* started, and with exit status 0.
C5_RefusalLeavesStore ==
  pc = "done" /\ run.cmd = "check" /\ run.user_input \in {"no", "n"} =>
    /\ db = run.before
    /\ run.exit = 0

\* a refused cleanup has ended, the stale row still in the store
C5_Witness ==
  /\ pc = "done"
  /\ run.cmd = "check"
  /\ run.user_input = "n"
  /\ run.missing_ids # << >>
  /\ BagCardinality(db.edl_records) >= 1

\* the malformed lines of an EDL file, by their line numbers in the stripped text
MalformedLines(e) ==
  { n \in 2..Len(ReadLines(e)) : IsMalformedLine(e, n) }

\* C6: a line of an EDL file that does not parse is logged with its file and
\* line number and changes nothing else: after the scan the cut records are
\* those the store held before together with the rows of every resolvable
\* record line of every accepted file, whether the line stands before or after
\* a malformed one.
C6_MalformedLineIsolated ==
  IngestScanned /\ db.schema = "full" =>
    /\ BagToSet(run.conn.edl_records) =
         BagToSet(db.edl_records) \cup ResolvedRows(run.edl, db, run.conn)
    /\ \A e \in Accepted(run.edl) : \A n \in MalformedLines(e) :
         LogEntry(join(ButLast(e.path), Last(e.path)), n, "unparsed_line")
           \in run.ingestion_log

\* a file with a malformed second line has been ingested together with the
\* record line that follows it
C6_Witness ==
  /\ IngestScanned
  /\ ~run.repeat
  /\ run.edl = {EdlY}
  /\ MalformedLines(EdlY) # {}
  /\ run.records_added_count = 1
  /\ db.edl_records = EmptyBag

\* C7: when the catalog cannot be read, a sync run ends without having walked
\* the media folder and with the rows of the store as they were before the
\* run, in normal mode and in rebuild mode.
C7_CatalogFailureLeavesStore ==
  [][ (pc = "idle" \/ pc = "done") /\ pc' = "done" /\ run'.cmd = "sync"
        /\ run'.outcome = "catalog_unavailable" =>
          /\ ~run'.walked
          /\ Rows(db') = Rows(db) ]_vars

\* C8: a run that ends on a fatal condition (the catalog cannot be read, the
\* store is missing) ends with a non-zero exit status; a run that ends on a
\* recoverable or normal condition ends with exit status 0.
C8_ExitStatus ==
  pc = "done" =>
    /\ run.outcome \in {"catalog_unavailable", "store_missing", "uncaught_error"} =>
         run.exit # 0
    /\ run.outcome \in {"ok", "no_media_files", "no_edl_files", "all_found",
                        "empty_index", "cleaned", "cancelled"} =>
         run.exit = 0

\* C9: no two rows of local_files have the same file_path, in the store and
\* in the connection of a run in progress.
C9_FilePathUnique ==
  \A d \in {db, run.conn} :
    \A r1, r2 \in d.local_files : r1.file_path = r2.file_path => r1 = r2

\* a sync run has met a path that the store already holds
C9_Witness ==
  /\ SyncScanned
  /\ \E r \in db.local_files :
       \E entry \in Walk(fs, MediaRoot, MEDIA_EXTENSIONS) :
         /\ r.file_path = normpath(join(ButLast(entry), Last(entry)))
         /\ r.file_path \in DOMAIN run.stash_files
  /\ run.found_count = 1
  /\ Cardinality(run.conn.local_files) = 2

\* C10: no two rows of edl_records have the same (edl_id, local_file_id,
\* start_time_ms, length_ms), in the store and in the connection of a run in
\* progress.
C10_CutUnique ==
  \A d \in {db, run.conn} :
    \A r \in BagToSet(d.edl_records) : CopiesIn(r, d.edl_records) = 1

\* an EDL file that states the same cut twice has been ingested
C10_Witness ==
  /\ IngestScanned
  /\ EdlX \in run.edl
  /\ \E r \in BagToSet(run.conn.edl_records) :
       /\ r.start_time_ms = Double(10500, 0)
       /\ r.length_ms = Double(3250, 0)
       /\ CopiesIn(r, run.conn.edl_records) = 1

\* C11: in the store and in the connection of a run in progress no two
\* edl_files rows have the same filename, every edl_files row has exactly one
\* edl_metadata row and every edl_metadata row belongs to exactly one
\* edl_files row.
C11_SourceMetadataOneToOne ==
  \A d \in {db, run.conn} :
    /\ \A s1, s2 \in d.edl_files : s1.filename = s2.filename => s1 = s2
    /\ \A s \in d.edl_files :
         Cardinality({m \in d.edl_metadata : m.edl_id = s.edl_id}) = 1
    /\ \A m \in d.edl_metadata :
         Cardinality({s \in d.edl_files : s.edl_id = m.edl_id}) = 1

\* an ingest has read two files of one name from two folders, and a source
\* of another name is in the store already
C11_Witness ==
  /\ IngestScanned
  /\ run.edl = {EdlX, EdlSubX}
  /\ Cardinality(db.edl_files) = 1
  /\ Cardinality(run.conn.edl_files) = 2
  /\ Cardinality(run.conn.edl_metadata) = 2

\* C12: no step of a non-rebuild sync run (of either sync script) changes or
\* removes a local_files row, in the store or in the run's connection: every
\* row keeps its local_id, file_path and stash_file_id, whatever the catalog
\* now says about its path.
C12_NeverUpdatedInPlace ==
  [][ run'.cmd \in {"sync", "legacy_sync"} /\ ~run'.rebuild =>
        /\ db.local_files \subseteq db'.local_files
        /\ pc \in {"sync_scan", "legacy_scan"} =>
             run.conn.local_files \subseteq run'.conn.local_files ]_vars

\* a sync has scanned two indexed files: the catalog gives the first another
\* id than the store holds and does not list the second any more
C12_Witness ==
  /\ SyncScanned
  /\ ~run.rebuild
  /\ \E r \in db.local_files :
       /\ r.file_path \in DOMAIN run.stash_files
       /\ run.stash_files[r.file_path] # r.stash_file_id
       /\ r \in run.conn.local_files
  /\ \E r \in db.local_files :
       /\ r.file_path \notin DOMAIN run.stash_files
       /\ r.file_path \in run.missing_log
       /\ r \in run.conn.local_files

\* a step of a confirmed cleanup
CleanupStep == pc = "prompt" /\ run'.cmd = "check" /\ run'.user_input \in {"yes", "y"}

\* the first step of a sync run in rebuild mode
RebuildStep == pc \in {"idle", "done"} /\ run'.cmd = "sync" /\ run'.rebuild

\* C13 as stated: a step that removes a local_files row from the store is a
\* step of a confirmed cleanup; no step of a sync run in any mode and no step
\* of an ingest run removes one.
C13_OnlyCleanupDestroys ==
  [][ ~(db.local_files \subseteq db'.local_files) => CleanupStep ]_vars

\* C13, amended: a step that removes a local_files row from the store is a
\* step of a confirmed cleanup or the first step of a sync run in rebuild
\* mode, which removes every row; no step of a non-rebuild sync run and no
\* step of an ingest run removes a row from the store or from the run's
\* connection.
C13_OnlyCleanupOrRebuildDestroys ==
  [][ /\ ~(db.local_files \subseteq db'.local_files) =>
           \/ CleanupStep
           \/ RebuildStep /\ db'.local_files = {}
      /\ pc \in {"sync_scan", "legacy_scan", "ingest_scan"} =>
           run.conn.local_files \subseteq run'.conn.local_files ]_vars

\* a rebuild has ended and a path the store held before has no row any more
C13_Witness ==
  /\ pc = "done"
  /\ run.cmd = "sync"
  /\ run.rebuild
  /\ run.outcome = "ok"
  /\ db.local_files # {}
  /\ \E r \in run.before.local_files :
       \A r2 \in db.local_files : r2.file_path # r.file_path

\* the cut records the store loses in a step
RecordsLost ==
  { r \in BagToSet(db.edl_records) :
      CopiesIn(r, db'.edl_records) < CopiesIn(r, db.edl_records) }

\* cut record r goes in this step together with the row of its file
Cascade(r) ==
  /\ CleanupStep
  /\ \E f \in db.local_files : f.local_id = r.local_file_id
  /\ \A f \in db'.local_files : f.local_id # r.local_file_id

\* C14 as stated: no step of any run, a rebuild sync included, removes an
\* edl_files row, and a cut record leaves the store only in the cleanup step
\* that removes the row of its file.
C14_SourcesNeverDeleted ==
  [][ /\ db.edl_files \subseteq db'.edl_files
      /\ \A r \in RecordsLost : Cascade(r) ]_vars

\* C14, amended: an edl_files row leaves the store only in the first step of
\* a sync run in rebuild mode, which removes every source, metadata row and
\* cut record; apart from that step a cut record leaves the store only in the
\* cleanup step that removes the row of its file.
C14_SourcesDeletedOnlyByRebuild ==
  [][ /\ ~(db.edl_files \subseteq db'.edl_files) \/ ~(db.edl_metadata \subseteq db'.edl_metadata) =>
           /\ RebuildStep
           /\ db'.edl_files = {}
           /\ db'.edl_metadata = {}
           /\ db'.edl_records = EmptyBag
      /\ \A r \in RecordsLost : Cascade(r) \/ RebuildStep ]_vars

\* a rebuild has ended: the sources and cut records the store held are gone
C14_Witness ==
  /\ pc = "done"
  /\ run.cmd = "sync"
  /\ run.rebuild
  /\ run.outcome = "ok"
  /\ run.before.edl_files # {}
  /\ run.before.edl_records # EmptyBag
  /\ db.edl_files = {}
  /\ db.edl_records = EmptyBag
  /\ db.local_files # {}

\* the normalized paths of the candidates a sync run scans
Candidates == { normpath(join(ButLast(entry), Last(entry))) :
                  entry \in Walk(fs, MediaRoot, MEDIA_EXTENSIONS) }

\* a sync run of sync_edl.py has scanned, committed and reported
SyncCompleted == pc = "done" /\ run.cmd = "sync" /\ run.outcome = "ok"

\* the local_files rows the scan of the run started from: none after the
\* removal of rebuild mode
StartRows == IF run.rebuild THEN {} ELSE run.before.local_files

\* the counts and the missing report of a completed sync run
SyncReportExact ==
  /\ run.missing_log = Candidates \ DOMAIN run.stash_files
  /\ run.missing_count = Cardinality(Candidates \ DOMAIN run.stash_files)
  /\ StartRows \subseteq db.local_files
  /\ run.found_count = Cardinality(db.local_files \ StartRows)
  /\ run.new_files_added = {r.file_path : r \in db.local_files \ StartRows}
  /\ \A r \in db.local_files \ StartRows : r.file_path \in Candidates \cap DOMAIN run.stash_files

\* C15 as stated: after a completed sync run every candidate in the catalog
\* mapping has a row (path, catalog id of that path) and is not reported
\* missing, every other candidate is reported and counted missing and gets no
\* row, and the counts are exact.
C15_EveryCandidateClassified ==
  SyncCompleted =>
    /\ \A p \in Candidates \cap DOMAIN run.stash_files :
         /\ \E r \in db.local_files :
              r.file_path = p /\ r.stash_file_id = run.stash_files[p]
         /\ p \notin run.missing_log
    /\ SyncReportExact

\* C15, amended: a candidate in the catalog mapping has exactly one row: the
\* row the store held for its path before the run, unchanged, or else a new
\* row (path, catalog id of that path); the rest is as stated.
C15_CandidateRowKeptOrCreated ==
  SyncCompleted =>
    /\ \A p \in Candidates \cap DOMAIN run.stash_files :
         /\ Cardinality({r \in db.local_files : r.file_path = p}) = 1
         /\ \A r \in db.local_files : r.file_path = p =>
              \/ r \in StartRows
              \/ /\ r.stash_file_id = run.stash_files[p]
                 /\ p \in run.new_files_added
         /\ p \notin run.missing_log
    /\ SyncReportExact

\* a sync has completed: one candidate got a new row, the other kept the row
\* of an earlier run although the catalog gives its path another id now
C15_Witness ==
  /\ SyncCompleted
  /\ ~run.rebuild
  /\ run.found_count = 1
  /\ run.missing_count = 0
  /\ \E r \in db.local_files :
       /\ r \in run.before.local_files
       /\ r.file_path \in Candidates \cap DOMAIN run.stash_files
       /\ r.stash_file_id # run.stash_files[r.file_path]

\* a sync run in rebuild mode has ended after its scan
RebuildCompleted ==
  /\ pc = "done"
  /\ run.cmd = "sync"
  /\ run.rebuild
  /\ run.outcome \in {"ok", "no_media_files"}

\* C16: after a completed sync run in rebuild mode the store holds one row
\* (path, catalog id of that path) for each scanned candidate in the catalog
\* mapping, no other local_files row, and no edl_files, edl_metadata or
\* edl_records row, whatever it held before.
C16_RebuildGivesCleanSlate ==
  RebuildCompleted =>
    LET map == get_stash_files(run.catalog).map IN
    /\ {r.file_path : r \in db.local_files} = Candidates \cap DOMAIN map
    /\ \A r1, r2 \in db.local_files : r1.file_path = r2.file_path => r1 = r2
    /\ \A r \in db.local_files : r.stash_file_id = map[r.file_path]
    /\ db.edl_files = {}
    /\ db.edl_metadata = {}
    /\ db.edl_records = EmptyBag

\* a rebuild has completed on a store that held two file rows, one of them
\* with another catalog id, a source and cut records
C16_Witness ==
  /\ RebuildCompleted
  /\ Cardinality(run.before.local_files) = 2
  /\ Cardinality(db.local_files) = 1
  /\ \E r \in db.local_files : \E r0 \in run.before.local_files :
       r0.file_path = r.file_path /\ r0.stash_file_id # r.stash_file_id
  /\ run.before.edl_metadata # {}
  /\ BagCardinality(run.before.edl_records) >= 2

\* the invariants of a store: unique paths, unique filenames, unique cut
\* tuples, every cut record with its file and its source
StoreInvariants(d) ==
  /\ \A r1, r2 \in d.local_files : r1.file_path = r2.file_path => r1 = r2
  /\ \A s1, s2 \in d.edl_files : s1.filename = s2.filename => s1 = s2
  /\ \A r \in BagToSet(d.edl_records) :
       /\ CopiesIn(r, d.edl_records) = 1
       /\ \E f \in d.local_files : f.local_id = r.local_file_id
       /\ \E src \in d.edl_files : src.edl_id = r.edl_id

\* the store is what a sync run with the arguments and inputs of `run`,
\* started on store d0 and left alone until it ended, writes: the rows of d0
\* (none in rebuild mode), and for each candidate in the catalog mapping
\* without a row a new row with the next free ids
SyncCompleteFrom(d0) ==
  LET start == IF run.rebuild THEN {} ELSE d0.local_files
      high  == IF run.rebuild THEN 0 ELSE d0.seq.local_files
      map   == get_stash_files(run.catalog).map
      new   == db.local_files \ start
  IN
  /\ start \subseteq db.local_files
  /\ {r.file_path : r \in new} =
       (Candidates \cap DOMAIN map) \ {r.file_path : r \in start}
  /\ \A r \in new : r.stash_file_id = map[r.file_path]
  /\ {r.local_id : r \in new} = (high + 1)..(high + Cardinality(new))
  /\ db.seq.local_files = high + Cardinality(new)
  /\ <<db.edl_files, db.edl_metadata, db.edl_records, db.seq.edl_files>> =
       IF run.rebuild THEN <<{}, {}, EmptyBag, 0>>
       ELSE <<d0.edl_files, d0.edl_metadata, d0.edl_records, d0.seq.edl_files>>

\* the same for an ingest run: the rows of d0, a source with its metadata row
\* for every accepted file name without one, the row of every resolvable
\* record line
IngestCompleteFrom(d0) ==
  LET new == db.edl_files \ d0.edl_files IN
  /\ db.local_files = d0.local_files
  /\ db.seq.local_files = d0.seq.local_files
  /\ d0.edl_files \subseteq db.edl_files
  /\ {src.filename : src \in new} =
       {Last(e.path) : e \in Accepted(run.edl)} \ {src.filename : src \in d0.edl_files}
  /\ {src.edl_id : src \in new} =
       (d0.seq.edl_files + 1)..(d0.seq.edl_files + Cardinality(new))
  /\ db.seq.edl_files = d0.seq.edl_files + Cardinality(new)
  /\ db.edl_metadata =
       d0.edl_metadata \cup
         {MetadataRow(src.edl_id, style_name(src.filename)) : src \in new}
  /\ BagToSet(db.edl_records) =
       BagToSet(d0.edl_records) \cup ResolvedRows(run.edl, d0, db)

\* C17: the committed store satisfies the store invariants in every state,
\* also while a run is in progress and after a run was killed; a killed sync
\* or ingest run leaves the rows its scan started from, all of which a
\* complete run keeps; and a run that ends normally, be it the first run or
\* the re-run of a killed run with the same arguments and inputs, leaves what
\* one uninterrupted run started on the original store writes.
C17_TerminationIsSafe ==
  /\ StoreInvariants(db)
  /\ pc = "done" /\ run.outcome = "terminated" =>
       Rows(db) = IF run.cmd = "sync" /\ run.rebuild
                    THEN Rows(AbsentDb)
                    ELSE Rows(run.before)
  /\ pc = "done" /\ run.cmd = "sync" /\ run.outcome = "ok" =>
       SyncCompleteFrom(run.before)
  /\ pc = "done" /\ run.cmd = "ingest" /\ run.outcome = "ok" =>
       IngestCompleteFrom(run.before)

\* an ingest that is the re-run of a killed ingest has ended and added the
\* source and the cut records of a file
C17_Witness ==
  /\ pc = "done"
  /\ run.cmd = "ingest"
  /\ run.resumed
  /\ run.outcome = "ok"
  /\ EdlX \in run.edl
  /\ run.records_added_count >= 2
  /\ run.before.edl_files = {}
  /\ Cardinality(db.edl_files) = 1

\* the cut-list files of an EDL root that are skipped as a whole
Skipped(edl) == EdlWalk(edl, EdlRoot) \ Accepted(edl)

\* C18: after the scan of an ingest run every file that is empty or whose
\* first non-empty line is not the header is in the log, as empty or with an
\* invalid header; the sources are those the store held and one per name of
\* an accepted file, each new one with one metadata row; and the cut records
\* are those the store held and the rows of the accepted files' resolvable
\* lines: a skipped file adds nothing and stops nothing.
C18_BadHeaderSkipsFile ==
  IngestScanned /\ db.schema = "full" =>
    /\ \A e \in Skipped(run.edl) :
         LogEntry(join(ButLast(e.path), Last(e.path)),
                  IF ReadLines(e) = << >> THEN 0 ELSE 1,
                  IF ReadLines(e) = << >> THEN "empty" ELSE "invalid_header")
           \in run.ingestion_log
    /\ {src.filename : src \in run.conn.edl_files} =
         {src.filename : src \in db.edl_files}
           \cup {Last(e.path) : e \in Accepted(run.edl)}
    /\ Cardinality(run.conn.edl_metadata) = Cardinality(run.conn.edl_files)
    /\ {m.edl_id : m \in run.conn.edl_metadata} = {src.edl_id : src \in run.conn.edl_files}
    /\ \A r \in BagToSet(run.conn.edl_records) \ BagToSet(db.edl_records) :
         \E e \in Accepted(run.edl) : \E src \in run.conn.edl_files :
           src.filename = Last(e.path) /\ src.edl_id = r.edl_id
    /\ ResolvedRows(run.edl, db, run.conn) \subseteq BagToSet(run.conn.edl_records)

\* an ingest has read a file with a wrong header, whose record line names an
\* indexed file, and a file with the header followed by white space
C18_Witness ==
  /\ IngestScanned
  /\ run.edl = {EdlBadHeader, EdlY}
  /\ \E f \in db.local_files : f.file_path = PathA
  /\ db.edl_files = {}
  /\ {src.filename : src \in run.conn.edl_files} = {Last(EdlY.path)}
  /\ run.records_added_count = 1

\* C19: no step of an ingest run changes or removes an edl_metadata row or
\* an edl_files row, in the store or in the run's connection: every column of
\* a metadata row, curated or not, and the edl_id, filename and ingested_at of
\* a source stay as they are; and a metadata row that an ingest creates has
\* the style derived from the file name and no other value.
C19_MetadataNeverOverwritten ==
  [][ run'.cmd = "ingest" =>
        /\ db.edl_metadata \subseteq db'.edl_metadata
        /\ db.edl_files \subseteq db'.edl_files
        /\ pc = "ingest_scan" =>
             /\ run.conn.edl_metadata \subseteq run'.conn.edl_metadata
             /\ run.conn.edl_files \subseteq run'.conn.edl_files
             /\ \A m \in run'.conn.edl_metadata \ run.conn.edl_metadata :
                  \E src \in run'.conn.edl_files \ run.conn.edl_files :
                    m = [edl_id |-> src.edl_id, style |-> style_name(src.filename),
                         age_group |-> NULL, rating |-> NULL, power |-> NULL,
                         texts |-> NULL] ]_vars

\* a file has been ingested again after its metadata row was curated and
\* after another source was created: the row and the source are as they were
C19_Witness ==
  /\ IngestScanned
  /\ run.edl = {EdlY}
  /\ \E src \in db.edl_files :
       /\ src.filename = Last(EdlY.path)
       /\ src.ingested_at = 1
       /\ src \in run.conn.edl_files
       /\ \E m \in run.conn.edl_metadata :
            /\ m.edl_id = src.edl_id
            /\ m.style = <<"curated">>
            /\ m.rating = "5"
            /\ m \in db.edl_metadata
  /\ \E src \in db.edl_files : src.ingested_at = 2

\* the run that ingested cut-list e into a store that indexes file A is done
Converted(e) ==
  /\ pc = "done"
  /\ run.cmd = "ingest"
  /\ run.outcome = "ok"
  /\ run.edl = {e}
  /\ \E r \in run.before.local_files : r.file_path = PathA

\* C20 as stated: for every record line with non-negative decimal fields
\* start s and length l of at most millisecond precision, the stored cut
\* record has start_time_ms = 1000*s and length_ms = 1000*l (10.5 -> 10500,
\* 3.25 -> 3250), and dividing the stored values by 1000 as the query path
\* does recovers s and l to millisecond precision
C20_StoredExactly ==
  \A e \in ConvertFiles :
    Converted(e)
    => LET s == e.lines[2][2]
           l == e.lines[2][3]
       IN  /\ BagCardinality(db.edl_records) = 1
           /\ \A rec \in BagToSet(db.edl_records) :
                /\ rec.start_time_ms = Double(Thousandths(s), 0)
                /\ rec.length_ms = Double(Thousandths(l), 0)
                /\ Thousandths(ToSeconds(rec.start_time_ms)) = Thousandths(s)
                /\ Thousandths(ToSeconds(rec.length_ms)) = Thousandths(l)

\* C20: for every record line with non-negative decimal fields start s and
\* length l of at most millisecond precision, the stored start_time_ms and
\* length_ms are 1000*s and 1000*l or a neighbouring double of them
\* (10.5 -> 10500, 3.25 -> 3250 exactly), and dividing the stored values by
\* 1000 as the query path does recovers s and l to millisecond precision
C20_StoredToTheNearestDouble ==
  \A e \in ConvertFiles :
    Converted(e)
    => LET s == e.lines[2][2]
           l == e.lines[2][3]
       IN  /\ BagCardinality(db.edl_records) = 1
           /\ \A rec \in BagToSet(db.edl_records) :
                /\ rec.start_time_ms.whole = Thousandths(s)
                /\ rec.length_ms.whole = Thousandths(l)
                /\ rec.start_time_ms.ulps \in {0 - 1, 0, 1}
                /\ rec.length_ms.ulps \in {0 - 1, 0, 1}
                /\ Thousandths(ToSeconds(rec.start_time_ms)) = Thousandths(s)
                /\ Thousandths(ToSeconds(rec.length_ms)) = Thousandths(l)
                /\ (s = DecField(10, <<5>>) /\ l = DecField(3, <<2, 5>>))
                     => /\ rec.start_time_ms = Double(10500, 0)
                        /\ rec.length_ms = Double(3250, 0)

\* the line /media/a.MP4,1.001,2.007 has been ingested: the start is stored
\* as the double below 1001, the length as the double above 2007
C20_Witness ==
  /\ Converted(ConvertEdl(DecField(1, <<0, 0, 1>>), DecField(2, <<0, 0, 7>>)))
  /\ \E rec \in BagToSet(db.edl_records) :
       /\ rec.start_time_ms = Double(1001, 0 - 1)
       /\ rec.length_ms = Double(2007, 1)
       /\ ToSeconds(rec.start_time_ms) = DecField(1, <<0, 0, 1>>)
       /\ ToSeconds(rec.length_ms) = DecField(2, <<0, 0, 7>>)

\* a stored double is zero or more
NonNegative(v) == v.whole > 0 \/ (v.whole = 0 /\ v.ulps >= 0)

\* C21: in every reachable store state, committed or in the connection of a
\* run in progress, every cut record has start_time_ms >= 0 and
\* length_ms >= 0: a record line with a negative or non-numeric time field is
\* never inserted
C21_TimesNonNegative ==
  \A rec \in BagToSet(db.edl_records) \cup BagToSet(run.conn.edl_records) :
    /\ NonNegative(rec.start_time_ms)
    /\ NonNegative(rec.length_ms)

\* x.edl has been ingested into a store that indexes file B: its line
\* /media/b.webm,0,7 is a cut record of B, its lines /media/a.MP4,abc,2 and
\* /media/b.webm,-1,2 are logged as unparsed and no record starts at -1000
C21_Witness ==
  /\ pc = "done"
  /\ run.cmd = "ingest"
  /\ run.outcome = "ok"
  /\ EdlX \in run.edl
  /\ LogEntry(EdlX.path, 3, "unparsed_line") \in run.ingestion_log
  /\ LogEntry(EdlX.path, 9, "unparsed_line") \in run.ingestion_log
  /\ \E r \in run.before.local_files :
       /\ r.file_path = PathB
       /\ \E rec \in BagToSet(db.edl_records) :
            /\ rec.local_file_id = r.local_id
            /\ rec.start_time_ms = Double(0, 0)
            /\ rec.length_ms = Double(7000, 0)
       /\ \A rec \in BagToSet(db.edl_records) :
            rec.local_file_id = r.local_id => rec.start_time_ms # Double(0 - 1000, 0)

\* every cut record of store d references a file row and a source of d
References(d) ==
  \A rec \in BagToSet(d.edl_records) :
    /\ \E r \in d.local_files : r.local_id = rec.local_file_id
    /\ \E src \in d.edl_files : src.edl_id = rec.edl_id

\* C22: in every committed store state reachable by sync, rebuild-sync,
\* ingest and confirmed cleanup runs, each cut record references an
\* IndexedFile row and an EdlSource row that both exist in the store: a
\* record line whose path does not resolve in the index inserts nothing, and
\* cleanup removes a file's cut records together with the file row
C22_ReferencesExist ==
  /\ References(db)
  /\ IngestScanned =>
       /\ References(run.conn)
       /\ \A e \in run.edl : \A n \in 1..Len(ReadLines(e)) :
            LogEntry(e.path, n, "not_in_local_db") \in run.ingestion_log
            => \A rec \in BagToSet(run.conn.edl_records) :
                 \A r \in run.conn.local_files :
                   r.local_id = rec.local_file_id
                   => r.file_path # normpath(MatchPath(ReadLines(e)[n]))
  /\ (pc = "done" /\ run.cmd = "check" /\ run.outcome = "cleaned") =>
       \A rec \in BagToSet(db.edl_records) :
         rec.local_file_id \notin Range(run.missing_ids)

\* a confirmed cleanup has removed a vanished file together with its cut
\* records, and the cut records that stay reference rows that stay
C22_Witness ==
  /\ pc = "done"
  /\ run.cmd = "check"
  /\ run.outcome = "cleaned"
  /\ run.local_records_deleted > 0
  /\ run.edl_records_deleted > 0
  /\ db.edl_records # EmptyBag
  /\ References(db)
  /\ \E rec \in BagToSet(run.before.edl_records) :
       /\ rec.local_file_id \in Range(run.missing_ids)
       /\ rec \notin BagToSet(db.edl_records)

\* a step that runs Phase 1 of the integrity check
CheckStep == pc \in {"idle", "done"} /\ run'.cmd = "check"

\* C23: Phase 1 of the integrity check returns exactly the indexed files
\* whose path does not exist on the filesystem at the time it is tested, with
\* the i-th returned id being the local_id of the i-th returned path, and
\* Phase 1 itself changes nothing in the store
C23_PhaseOneExact ==
  [][ CheckStep =>
        LET gone == { r \in db.local_files : ~exists(fs, r.file_path) } IN
        /\ db' = db
        /\ Len(run'.missing_files) = Cardinality(gone)
        /\ Len(run'.missing_ids) = Cardinality(gone)
        /\ \A r \in gone : \E i \in 1..Len(run'.missing_ids) :
             /\ run'.missing_ids[i] = r.local_id
             /\ run'.missing_files[i] = r.file_path
        /\ \A i \in 1..Len(run'.missing_ids) : \E r \in gone :
             /\ run'.missing_ids[i] = r.local_id
             /\ run'.missing_files[i] = r.file_path ]_vars

\* Phase 1 has found one of the two indexed files missing and waits at the
\* prompt; the store is as it was
C23_Witness ==
  /\ pc = "prompt"
  /\ run.user_input = ""
  /\ Len(run.missing_ids) = 1
  /\ Len(run.missing_files) = 1
  /\ db = run.before
  /\ \E r \in db.local_files :
       /\ r.local_id \notin Range(run.missing_ids)
       /\ exists(fs, r.file_path)
  /\ \E r \in db.local_files :
       /\ r.local_id = run.missing_ids[1]
       /\ r.file_path = run.missing_files[1]
       /\ ~exists(fs, r.file_path)

\* the cut record of line 2 of c.edl, /media/c,d.mp4,10.5,3.25, in store d
CommaRecords(d) ==
  { rec \in BagToSet(d.edl_records) :
      /\ \E r \in d.local_files : r.file_path = PathC /\ r.local_id = rec.local_file_id
      /\ rec.start_time_ms = Double(10500, 0)
      /\ rec.length_ms = Double(3250, 0) }

\* C24 as stated: a record line whose path contains a comma is not
\* representable: ingesting <path-with-comma>,<start>,<length> never produces
\* a cut record for the intended path with the intended start and length,
\* even when that path is in the index
C24_CommaPathNeverStored ==
  /\ CommaRecords(db) = {}
  /\ CommaRecords(run.conn) = {}

\* C24: a record line whose path contains a comma is read with its path
\* whole: ingesting <path-with-comma>,<start>,<length> produces the cut
\* record for the intended path with the intended start and length when that
\* path is in the index, and logs the whole path as not found when it is not
C24_CommaPathStored ==
  (IngestScanned /\ EdlComma \in run.edl) =>
    IF \E r \in run.conn.local_files : r.file_path = PathC
      THEN /\ Cardinality(CommaRecords(run.conn)) = 1
           /\ LogEntry(EdlComma.path, 2, "not_in_local_db") \notin run.ingestion_log
           /\ LogEntry(EdlComma.path, 2, "unparsed_line") \notin run.ingestion_log
      ELSE /\ CommaRecords(run.conn) = {}
           /\ LogEntry(EdlComma.path, 2, "not_in_local_db") \in run.ingestion_log

\* c.edl has been ingested and committed into a store that indexes
\* /media/c,d.mp4: the store holds the cut record of 10.5 s and 3.25 s for it
C24_Witness ==
  /\ pc = "done"
  /\ run.cmd = "ingest"
  /\ run.outcome = "ok"
  /\ run.edl = {EdlComma}
  /\ CommaRecords(run.before) = {}
  /\ Cardinality(CommaRecords(db)) = 1
  /\ normpath(MatchPath(EdlComma.lines[2])) = PathC

\* the base name without its extension
Stem(filename) == ButLast(filename)

\* the metadata rows of sources the run in progress has created
FreshMetadata ==
  { m \in run.conn.edl_metadata : \A src \in run.before.edl_files : src.edl_id # m.edl_id }

\* the base name of the source of metadata row m
StemOf(m) == Stem((CHOOSE src \in run.conn.edl_files : src.edl_id = m.edl_id).filename)

\* name = head + _chopped<N>-<M> with N and M of one or more digits
HasChoppedNumbers(name, head) ==
  \E i \in 1..Len(name) :
    /\ head = SubSeq(name, 1, i - 1)
    /\ name[i] = "_chopped"
    /\ \E j \in (i + 2)..(Len(name) - 1) :
         /\ name[j] = "-"
         /\ \A k \in ((i + 1)..(j - 1)) \cup ((j + 1)..Len(name)) : name[k] \in Digits

\* name = head + _chopped<N>-<M> with N and M of one digit each
HasChoppedDigits(name, head) ==
  /\ Len(name) >= 4
  /\ name = head \o SubSeq(name, Len(name) - 3, Len(name))
  /\ name[Len(name) - 3] = "_chopped"
  /\ name[Len(name) - 2] \in Digits
  /\ name[Len(name) - 1] = "-"
  /\ name[Len(name)] \in Digits

\* C25 as stated: the style label stored when an EdlSource is first created
\* equals the file's base name with a trailing _chopped<N>-<M> suffix
\* removed, for every N and M written with one or more digits, and equals the
\* base name unchanged when it has no such trailing suffix
C25_StyleStripsNumbers ==
  IngestScanned =>
    \A m \in FreshMetadata :
      IF \E i \in 0..Len(StemOf(m)) : HasChoppedNumbers(StemOf(m), SubSeq(StemOf(m), 1, i))
        THEN HasChoppedNumbers(StemOf(m), m.style)
        ELSE m.style = StemOf(m)

\* C25: the style label stored when an EdlSource is first created equals the
\* file's base name (without its extension) with a trailing _chopped<N>-<M>
\* suffix removed when N and M are one digit each, and equals the base name
\* unchanged otherwise, a suffix with a number of several digits included
C25_StyleStripsDigits ==
  IngestScanned =>
    \A m \in FreshMetadata :
      IF \E i \in 0..Len(StemOf(m)) : HasChoppedDigits(StemOf(m), SubSeq(StemOf(m), 1, i))
        THEN HasChoppedDigits(StemOf(m), m.style)
        ELSE m.style = StemOf(m)

\* z_chopped12-3.edl has been ingested for the first time: its style is
\* z_chopped12-3
C25_Witness ==
  /\ IngestScanned
  /\ run.edl = { StyleEdl(<<"z", "_chopped", "1", "2", "-", "3", ".edl">>) }
  /\ \E m \in FreshMetadata : m.style = <<"z", "_chopped", "1", "2", "-", "3">>
  /\ \E m \in run.before.edl_metadata : m.style = <<"y">>
  /\ \E m \in run.before.edl_metadata : m.style = <<"u", "_chopped", "1", "-", "2">>

\* C26: cleanup acts on the Phase-1 snapshot: while the prompt blocks, the
\* ids found missing in Phase 1 stay as they are whatever happens to the
\* filesystem, and on confirmation the rows deleted are exactly the rows of
\* the store of Phase 1 with those ids, with no test of existence: a file
\* that has reappeared is deleted and another that has vanished is kept
C26_CleanupUsesSnapshot ==
  [][ pc = "prompt" =>
        /\ run'.missing_ids = run.missing_ids
        /\ run'.missing_files = run.missing_files
        /\ run'.before = run.before
        /\ (pc' = "done" /\ run'.outcome = "cleaned") =>
             /\ db'.local_files =
                  { r \in run.before.local_files : r.local_id \notin Range(run.missing_ids) }
             /\ db'.edl_records = Surviving(run.before.edl_records, Range(run.missing_ids))
             /\ \A r \in run.before.local_files :
                  (r.local_id \in Range(run.missing_ids) /\ exists(fs, r.file_path))
                  => r \notin db'.local_files
             /\ \A r \in run.before.local_files :
                  (r.local_id \notin Range(run.missing_ids) /\ ~exists(fs, r.file_path))
                  => r \in db'.local_files ]_vars

\* a cleanup has been confirmed after the file found missing had come back
\* and another indexed file had vanished: the row of the first is deleted,
\* the row of the second is kept
C26_Witness ==
  /\ pc = "done"
  /\ run.cmd = "check"
  /\ run.outcome = "cleaned"
  /\ \E r \in run.before.local_files :
       /\ r.local_id \in Range(run.missing_ids)
       /\ exists(fs, r.file_path)
       /\ r \notin db.local_files
  /\ \E r \in db.local_files :
       /\ r.local_id \notin Range(run.missing_ids)
       /\ ~exists(fs, r.file_path)

\* the sources of store d named x.edl
SourcesX(d) == { src \in d.edl_files : src.filename = Last(EdlX.path) }

\* the copies in store d of the cut record of the line /media/a.MP4,10.5,3.25
SharedLineCopies(d) ==
  { <<rec, i>> \in UNION { {rec} \X (1..d.edl_records[rec]) : rec \in BagToSet(d.edl_records) } :
      /\ \E r \in d.local_files : r.file_path = PathA /\ r.local_id = rec.local_file_id
      /\ rec.start_time_ms = Double(10500, 0)
      /\ rec.length_ms = Double(3250, 0)
      /\ \E src \in d.edl_files : src.edl_id = rec.edl_id /\ Stem(src.filename) = <<"x">> }

\* C27: EdlSource identity is the base filename only: the cut-list files
\* /edl/x.edl and /edl/sub/x.edl, ingested in one run or in successive runs,
\* map to a single EdlSource, and the record line that occurs in both yields
\* one cut record, not two
C27_SourceIsBaseName ==
  ( /\ IngestScanned
    /\ EdlSubX \in run.edl
    /\ EdlX \in run.edl \/ SourcesX(run.before) # {} )
  => /\ Cardinality(SourcesX(run.conn)) = 1
     /\ \A src \in run.conn.edl_files : Stem(src.filename) = <<"x">> => src \in SourcesX(run.conn)
     /\ SourcesX(run.before) \subseteq SourcesX(run.conn)
     /\ Cardinality(SharedLineCopies(run.conn))
          = IF \E r \in run.conn.local_files : r.file_path = PathA THEN 1 ELSE 0

\* /edl/x.edl and /edl/sub/x.edl have been ingested in one run into a store
\* that indexes file A: one source x.edl, one cut record of their common line
C27_Witness ==
  /\ IngestScanned
  /\ run.edl = {EdlX, EdlSubX}
  /\ SourcesX(run.before) = {}
  /\ Cardinality(SourcesX(run.conn)) = 1
  /\ Cardinality(SharedLineCopies(run.conn)) = 1

\* /edl/sub/x.edl has been ingested in a run after the run that ingested
\* /edl/x.edl: no source and no cut record is added
C27_WitnessSuccessive ==
  /\ IngestScanned
  /\ run.edl = {EdlSubX}
  /\ Cardinality(SourcesX(run.before)) = 1
  /\ Cardinality(SharedLineCopies(run.before)) = 1
  /\ run.conn.edl_files = run.before.edl_files
  /\ run.conn.edl_records = run.before.edl_records
  /\ run.records_added_count = 0

\* from store d to store e no row of the three cut-list relations changes
CutListsUnchanged(d, e) ==
  /\ e.edl_files = d.edl_files
  /\ e.edl_metadata = d.edl_metadata
  /\ e.edl_records = d.edl_records

\* from store d to store e no row of any relation is removed
NothingRemoved(d, e) ==
  /\ d.local_files \subseteq e.local_files
  /\ d.edl_files \subseteq e.edl_files
  /\ d.edl_metadata \subseteq e.edl_metadata
  /\ d.edl_records \sqsubseteq e.edl_records

\* C28: commands touch only their own relations: in every step of a
\* non-rebuild sync, on the store and on the connection of the run, every
\* EdlSource, metadata row and cut record stays as it is and no IndexedFile
\* row is removed; in every step of an ingest run the IndexedFile relation
\* stays as it is and no row is removed from any relation
C28_CommandsTouchOwnRelations ==
  [][ /\ (run'.cmd = "sync" /\ ~run'.rebuild) =>
           /\ CutListsUnchanged(db, db')
           /\ db.local_files \subseteq db'.local_files
           /\ pc' = "sync_scan" =>
                LET from == IF pc = "sync_scan" THEN run.conn ELSE db IN
                /\ CutListsUnchanged(from, run'.conn)
                /\ from.local_files \subseteq run'.conn.local_files
      /\ run'.cmd = "ingest" =>
           /\ db'.local_files = db.local_files
           /\ NothingRemoved(db, db')
           /\ pc' = "ingest_scan" =>
                LET from == IF pc = "ingest_scan" THEN run.conn ELSE db IN
                /\ run'.conn.local_files = from.local_files
                /\ NothingRemoved(from, run'.conn) ]_vars

\* a non-rebuild sync has added a file row to a store that held file rows,
\* sources and cut records: they are all as they were
C28_Witness ==
  /\ pc = "done"
  /\ run.cmd = "sync"
  /\ ~run.rebuild
  /\ run.outcome = "ok"
  /\ run.before.edl_files # {}
  /\ run.before.edl_records # EmptyBag
  /\ CutListsUnchanged(run.before, db)
  /\ run.before.local_files # {}
  /\ run.before.local_files \subseteq db.local_files
  /\ db.local_files # run.before.local_files

====
